---- MODULE Spec2Model ----
(***************************************************************************)
(* Model of fastlib/u/garryb/nbr/nbr_utils.h: the threaded dual-tree       *)
(* solver (ThreadedDualTreeSolver, its WorkerTask::Run loop) and the       *)
(* distributed runner (RpcMonochromaticDualTreeRunner::Doit), and the     *)
(* StatFixer (SpecFix: StatFixer::Fix on a kd-tree, call by call, and      *)
(* LiveSpecFix: the same with its thread always scheduled).                *)
(*                                                                         *)
(* Two runners share the solver:                                           *)
(*   Spec     MonochromaticDualTreeMain: one process, Solve + InitSolve    *)
(*   SpecRpc  RpcMonochromaticDualTreeRunner: n_peers processes, each      *)
(*            running Doit, synchronised by rpc::Barrier                   *)
(* work.h, rpc.h and par/thread.h are not part of the sources at hand; the *)
(* work queue, the barrier and the mutex are modelled from the design      *)
(* document.                                                               *)
(*                                                                         *)
(* Model of mlpack/core/tree/rectangle_tree/rectangle_tree_impl.hpp:       *)
(*   SpecTree  a RectangleTree after construction, under InsertPoint and   *)
(*             SplitNode calls                                             *)
(*   SpecBuild the constructor run on a matrix, then InsertPoint and       *)
(*             softDelete calls                                            *)
(*   SpecEnd   a RectangleTree under InsertPoint and End calls             *)
(* The split strategy (SplitType), the descent heuristic (DescentType) and *)
(* the bound type are template arguments defined elsewhere; they are       *)
(* modelled from the design document, over points on a line.               *)
(*                                                                         *)
(* Model of what mlpack/neighbor_search/allknn_test.cc exercises:          *)
(*   SpecKnn   AllkNN::ComputeNeighbors on one input in its three modes    *)
(* AllkNN itself (neighbor_search.h) is not part of the sources at hand;   *)
(* the traversal is modelled from the design document.                     *)
(***************************************************************************)
EXTENDS Integers, Sequences, FiniteSets, TLC

\* ------------------------------------------------------------------ bounds
MaxPeers == 2
MaxThreads == 2
MaxRoots == 3
MaxGrains == 3
MaxRpcWorkers == 2
MaxRpcRoots == 2
MaxRpcGrains == 1
MaxCoord == 2
MaxPoints == 3
MaxLeafSizeParam == 3
MaxFanout == 2
MaxCols == 2
MaxKnnPoints == 3
MaxKnnCoord == 3
MaxFixLeaves == 3
MaxLeafCount == 2

\* --------------------------------------------------------- program constants
MASTER_RANK == 0
BARRIER_CHANNEL == 100
CONFIG_CHANNEL == 121
PARAM_CHANNEL == 120
WORK_CHANNEL == 122

PeerIds == 0 .. (MaxPeers - 1)
ThreadIds == 1 .. MaxThreads
BarrierIds == BARRIER_CHANNEL .. (BARRIER_CHANNEL + 3)
Free == 0

NULL == 0
RootId == 1
NodeIds == 1 .. (2 * MaxPoints + 3)
Coords == 0 .. MaxCoord

VARIABLES
  runner,          \* "local" (MonochromaticDualTreeMain) or "rpc" (Doit)
  n_peers,         \* rpc::n_peers()
  n_threads_param, \* fx_param_int(module, "n_threads", 1)
  n_grains_param,  \* << >> when "n_grains" is not supplied, else << n >>
  n_roots,         \* number of top-level nodes of the query tree
  dpc,             \* per peer: position of the main thread
  config_,         \* per peer: Config::n_threads (0 = not yet set)
  param_,          \* per peer: state of the GNP::Param object param_
  work_queue_,     \* per peer: kind of the object behind work_queue_
  registered,      \* channels registered with rpc::Register at the master
  barrier,         \* per barrier channel: the peers that have arrived
  flushed,         \* per peer: arrays whose FlushClear has completed
  n_threads,       \* per peer: n_threads handed to InitSolve
  n_grains,        \* n_grains handed to SimpleWorkQueue::Init
  grains,          \* SimpleWorkQueue: the grains, each a list of query roots
  claim,           \* SimpleWorkQueue: number of grains claimed so far
  qlock,           \* LockedWorkQueue: holder of its lock, << >> when free
  ti,              \* per peer: loop index i of InitSolve's two loops
  mutex_,          \* per peer: holder of ThreadedDualTreeSolver::mutex_
  global_result_,  \* per peer: ThreadedDualTreeSolver::global_result_
  reported,        \* per peer: global_result_.Report has run
  wpc,             \* per worker thread: position in WorkerTask::Run
  work,            \* per worker thread: local ArrayList work
  wi,              \* per worker thread: loop index i over work (1-based)
  seen,            \* per worker thread: claim counter read inside GetWork
  acc,             \* per worker thread: value read inside Accumulate
  returns,         \* history: results of the GetWork calls, in order
  solves,          \* history: per query root, traversals started for it
  merged,          \* history: per query root, partial results accumulated
  maxLeafSize,     \* RectangleTree::maxLeafSize (the same in every node)
  minLeafSize,     \* RectangleTree::minLeafSize
  maxNumChildren,  \* RectangleTree::maxNumChildren
  minNumChildren,  \* RectangleTree::minNumChildren
  nodes,           \* the RectangleTree objects, by address
  ndebug,          \* the build defines NDEBUG: assert() expands to nothing
  aborted,         \* the process was ended by a failed assert
  last,            \* history: the last call made on the tree
  data,            \* the matrix handed to the RectangleTree constructor
  firstDataIndex,  \* the constructor's parameter firstDataIndex
  cpc,             \* position in the RectangleTree constructor
  ci,              \* the constructor's loop index i
  inserts,         \* history: InsertPoint calls made after the construction
  nodes_,          \* StatFixer::nodes_: the kd-tree nodes, by index
  points_,         \* StatFixer::points_: the points, by index
  fpc,             \* position in StatFixer::Fix and InitFix
  stack,           \* the running FixRecursively_ calls, the innermost last
  stat_ops,        \* history: per node, the calls made on its statistic
  references,      \* AllkNN: the reference points, one coordinate each
  queries,         \* AllkNN: the query points (the references when monochromatic)
  monochromatic,   \* AllkNN was constructed from a single dataset
  knns,            \* IO::GetParam<int>("neighbor_search/k")
  neighbors,       \* per mode: resulting_neighbors, << >> before ComputeNeighbors
  distances,       \* per mode: the distance table, << >> before ComputeNeighbors
  pruned           \* per mode: node pairs the traversal pruned

ctorVars == <<data, firstDataIndex, cpc, ci>>
treeVars ==
  <<maxLeafSize, minLeafSize, maxNumChildren, minNumChildren, nodes, ndebug,
    aborted, last, ctorVars, inserts>>
\* What no step of the solver or of the runner changes: the parameters of
\* the run and the objects of the other programs.
knnVars == <<references, queries, monochromatic, knns, neighbors, distances, pruned>>
fixVars == <<nodes_, points_, fpc, stack, stat_ops>>
cfgVars ==
  <<runner, n_peers, n_threads_param, n_grains_param, n_roots, treeVars, knnVars,
    fixVars>>
rpcVars == <<config_, param_, registered, barrier, flushed>>
queueVars == <<n_grains, grains, claim, qlock>>
mainVars == <<dpc, work_queue_, n_threads, ti, reported>>
workerVars == <<wpc, work, wi, seen, acc>>
sharedVars == <<mutex_, global_result_>>
histVars == <<returns, solves, merged>>
vars == <<cfgVars, rpcVars, queueVars, mainVars, workerVars, sharedVars, histVars>>

Peers == 0 .. (n_peers - 1)
Roots == 1 .. n_roots

Min(a, b) == IF a < b THEN a ELSE b

RECURSIVE SumTo(_, _)
SumTo(s, k) == IF k = 0 THEN 0 ELSE s[k] + SumTo(s, k - 1)

\* ------------------------------------------------------------- GNP pieces
\* The partial GlobalResult a traversal of query root r produces: an integer
\* count, distinct per root so that a lost or repeated merge shows.
RECURSIVE Pow2(_)
Pow2(n) == IF n = 0 THEN 1 ELSE 2 * Pow2(n - 1)
PartialResult(r) == Pow2(r - 1)

\* GlobalResult::Accumulate for an integer count.
Accumulate(g, part) == g + part

\* The query points below top-level node r: disjoint contiguous ranges.
QRange(r) == {2 * r - 1, 2 * r}

\* ------------------------------------------------------------ SimpleWorkQueue
\* SimpleWorkQueue::Init: the top-level nodes 1..n split into g non-empty
\* contiguous grains, for some g up to the requested number of grains.
GrainSizes(n, g) == {s \in [1 .. g -> 1 .. n] : SumTo(s, g) = n}
GrainsOf(s, g) ==
  [k \in 1 .. g |-> [j \in 1 .. s[k] |-> SumTo(s, k - 1) + j]]
Partitions(n, requested) ==
  UNION {{GrainsOf(s, g) : s \in GrainSizes(n, g)} : g \in 1 .. Min(requested, n)}

\* SimpleWorkQueue::GetWork, second half: with the claim counter read as c,
\* the grain handed out (empty when the queue is exhausted).
GrainAt(c) == IF c < Len(grains) THEN grains[c + 1] ELSE << >>

\* ---------------------------------------------------------------- Mutex
MutexFree(p) == mutex_[p] = Free
Holds(p, t) == mutex_[p] = t

\* ------------------------------------------------------- WorkerTask::Run
At(p, t, pos) == p \in Peers /\ wpc[p][t] = pos
Goto(p, t, pos) == wpc' = [wpc EXCEPT ![p][t] = pos]

\* Line 93 without mutual exclusion: the worker goes on although another
\* worker holds the mutex.
RunLockQueueNoWait(p, t) ==
  /\ At(p, t, "LockQueue")
  /\ mutex_' = [mutex_ EXCEPT ![p] = t]
  /\ Goto(p, t, "GetWork")
  /\ UNCHANGED <<cfgVars, rpcVars, queueVars, mainVars, work, wi, seen, acc,
                 global_result_, histVars>>

\* line 93: base_->mutex_.Lock()
RunLockQueue(p, t) ==
  /\ At(p, t, "LockQueue")
  /\ MutexFree(p)
  /\ mutex_' = [mutex_ EXCEPT ![p] = t]
  /\ Goto(p, t, "GetWork")
  /\ UNCHANGED <<cfgVars, rpcVars, queueVars, mainVars, work, wi, seen, acc,
                 global_result_, histVars>>

\* Whether GetWork through work_queue_ of peer p runs under the lock of a
\* LockedWorkQueue: a RemoteWorkQueue is served by the master's work_backend,
\* which calls the queue SetupMaster_ gave it.
QueueLocked(p) ==
  IF work_queue_[p] = "remote"
    THEN work_queue_[MASTER_RANK] = "locked"
    ELSE work_queue_[p] = "locked"

\* line 94, first half: GetWork reads the claim counter.  A LockedWorkQueue
\* (also behind a RemoteWorkQueue) takes its own lock around the call.
RunGetWorkRead(p, t) ==
  /\ At(p, t, "GetWork")
  /\ IF QueueLocked(p)
       THEN qlock = << >> /\ qlock' = <<p, t>>
       ELSE UNCHANGED qlock
  /\ seen' = [seen EXCEPT ![p][t] = claim]
  /\ Goto(p, t, "GetWorkTake")
  /\ UNCHANGED <<cfgVars, rpcVars, n_grains, grains, claim, mainVars, work, wi,
                 acc, sharedVars, histVars>>

\* line 94, second half: GetWork hands out the grain and advances the counter.
RunGetWorkTake(p, t) ==
  /\ At(p, t, "GetWorkTake")
  /\ work' = [work EXCEPT ![p][t] = GrainAt(seen[p][t])]
  /\ claim' = IF seen[p][t] < Len(grains) THEN seen[p][t] + 1 ELSE claim
  /\ qlock' = IF QueueLocked(p) THEN << >> ELSE qlock
  /\ seen' = [seen EXCEPT ![p][t] = 0]
  /\ returns' = Append(returns, GrainAt(seen[p][t]))
  /\ Goto(p, t, "UnlockQueue")
  /\ UNCHANGED <<cfgVars, rpcVars, n_grains, grains, mainVars, wi, acc,
                 sharedVars, solves, merged>>

\* Where the loop continues after the unlock of line 95: lines 97-101.
AfterGetWork(w) == IF Len(w) = 0 THEN "Delete" ELSE "LockSubmodule"

\* Lines 95-101 without the Unlock of line 95.
RunUnlockQueueKeepsLock(p, t) ==
  /\ At(p, t, "UnlockQueue")
  /\ wi' = [wi EXCEPT ![p][t] = IF Len(work[p][t]) = 0 THEN 0 ELSE 1]
  /\ Goto(p, t, AfterGetWork(work[p][t]))
  /\ UNCHANGED <<cfgVars, rpcVars, queueVars, mainVars, work, seen, acc,
                 sharedVars, histVars>>

\* lines 95-101: Unlock, then break on an empty list or enter the for loop.
RunUnlockQueue(p, t) ==
  /\ At(p, t, "UnlockQueue")
  /\ mutex_' = [mutex_ EXCEPT ![p] = Free]
  /\ wi' = [wi EXCEPT ![p][t] = IF Len(work[p][t]) = 0 THEN 0 ELSE 1]
  /\ Goto(p, t, AfterGetWork(work[p][t]))
  /\ UNCHANGED <<cfgVars, rpcVars, queueVars, mainVars, work, seen, acc,
                 global_result_, histVars>>

\* line 105: base_->mutex_.Lock()
RunLockSubmodule(p, t) ==
  /\ At(p, t, "LockSubmodule")
  /\ MutexFree(p)
  /\ mutex_' = [mutex_ EXCEPT ![p] = t]
  /\ Goto(p, t, "Submodule")
  /\ UNCHANGED <<cfgVars, rpcVars, queueVars, mainVars, work, wi, seen, acc,
                 global_result_, histVars>>

\* Lines 106-108 without the Unlock of line 108.
RunSubmoduleKeepsLock(p, t) ==
  /\ At(p, t, "Submodule")
  /\ Goto(p, t, "InitSolve")
  /\ UNCHANGED <<cfgVars, rpcVars, queueVars, mainVars, work, wi, seen, acc,
                 sharedVars, histVars>>

\* lines 106-108: fx_submodule(...) under the mutex, then Unlock.
RunSubmodule(p, t) ==
  /\ At(p, t, "Submodule")
  /\ mutex_' = [mutex_ EXCEPT ![p] = Free]
  /\ Goto(p, t, "InitSolve")
  /\ UNCHANGED <<cfgVars, rpcVars, queueVars, mainVars, work, wi, seen, acc,
                 global_result_, histVars>>

\* line 110: solver.InitSolve(submodule, param, q_root_index, ...) starts.
RunSolveBegin(p, t) ==
  /\ At(p, t, "InitSolve")
  /\ solves' = [solves EXCEPT ![work[p][t][wi[p][t]]] = @ + 1]
  /\ Goto(p, t, "Solving")
  /\ UNCHANGED <<cfgVars, rpcVars, queueVars, mainVars, work, wi, seen, acc,
                 sharedVars, returns, merged>>

\* Lines 110-119 without the merge of lines 115-118: after the traversal
\* the loop goes straight to the next root.
RunSolveEndSkipsMerge(p, t) ==
  /\ At(p, t, "Solving")
  /\ IF wi[p][t] < Len(work[p][t])
       THEN /\ wi' = [wi EXCEPT ![p][t] = @ + 1]
            /\ Goto(p, t, "LockSubmodule")
            /\ UNCHANGED work
       ELSE /\ wi' = [wi EXCEPT ![p][t] = 0]
            /\ work' = [work EXCEPT ![p][t] = << >>]
            /\ Goto(p, t, "LockQueue")
  /\ UNCHANGED <<cfgVars, rpcVars, queueVars, mainVars, seen, acc, sharedVars,
                 histVars>>

\* lines 110-113: the traversal returns.
RunSolveEnd(p, t) ==
  /\ At(p, t, "Solving")
  /\ Goto(p, t, "LockResult")
  /\ UNCHANGED <<cfgVars, rpcVars, queueVars, mainVars, work, wi, seen, acc,
                 sharedVars, histVars>>

\* Line 115 without mutual exclusion.
RunLockResultNoWait(p, t) ==
  /\ At(p, t, "LockResult")
  /\ mutex_' = [mutex_ EXCEPT ![p] = t]
  /\ Goto(p, t, "Accumulate")
  /\ UNCHANGED <<cfgVars, rpcVars, queueVars, mainVars, work, wi, seen, acc,
                 global_result_, histVars>>

\* line 115: base_->mutex_.Lock()
RunLockResult(p, t) ==
  /\ At(p, t, "LockResult")
  /\ MutexFree(p)
  /\ mutex_' = [mutex_ EXCEPT ![p] = t]
  /\ Goto(p, t, "Accumulate")
  /\ UNCHANGED <<cfgVars, rpcVars, queueVars, mainVars, work, wi, seen, acc,
                 global_result_, histVars>>

\* lines 116-117, first half: Accumulate reads global_result_.
RunAccumulateRead(p, t) ==
  /\ At(p, t, "Accumulate")
  /\ acc' = [acc EXCEPT ![p][t] = global_result_[p]]
  /\ Goto(p, t, "AccumulateWrite")
  /\ UNCHANGED <<cfgVars, rpcVars, queueVars, mainVars, work, wi, seen,
                 sharedVars, histVars>>

\* Lines 116-117 with the Solver of line 103 declared outside the loop of
\* line 101: its global_result() holds the results of every root of the
\* grain solved so far, and all of them are accumulated again.
RECURSIVE RunAccumulateWriteSharedSolverResult(_, _, _)
RunAccumulateWriteSharedSolverResult(g, list, n) ==
  IF n = 0 THEN g
  ELSE Accumulate(RunAccumulateWriteSharedSolverResult(g, list, n - 1),
                  PartialResult(list[n]))

RunAccumulateWriteSharedSolver(p, t) ==
  /\ At(p, t, "AccumulateWrite")
  /\ global_result_' = [global_result_ EXCEPT
       ![p] = RunAccumulateWriteSharedSolverResult(acc[p][t], work[p][t], wi[p][t])]
  /\ merged' = [r \in DOMAIN merged |->
                  merged[r] + Cardinality({i \in 1 .. wi[p][t] : work[p][t][i] = r})]
  /\ acc' = [acc EXCEPT ![p][t] = 0]
  /\ Goto(p, t, "UnlockResult")
  /\ UNCHANGED <<cfgVars, rpcVars, queueVars, mainVars, work, wi, seen, mutex_,
                 returns, solves>>

\* lines 116-117, second half: Accumulate writes global_result_.
RunAccumulateWrite(p, t) ==
  /\ At(p, t, "AccumulateWrite")
  /\ global_result_' = [global_result_ EXCEPT
       ![p] = Accumulate(acc[p][t], PartialResult(work[p][t][wi[p][t]]))]
  /\ merged' = [merged EXCEPT ![work[p][t][wi[p][t]]] = @ + 1]
  /\ acc' = [acc EXCEPT ![p][t] = 0]
  /\ Goto(p, t, "UnlockResult")
  /\ UNCHANGED <<cfgVars, rpcVars, queueVars, mainVars, work, wi, seen, mutex_,
                 returns, solves>>

\* Lines 118-119 with the while loop of line 90 missing: the worker leaves
\* after its first grain.
RunUnlockResultOneGrain(p, t) ==
  /\ At(p, t, "UnlockResult")
  /\ mutex_' = [mutex_ EXCEPT ![p] = Free]
  /\ IF wi[p][t] < Len(work[p][t])
       THEN /\ wi' = [wi EXCEPT ![p][t] = @ + 1]
            /\ Goto(p, t, "LockSubmodule")
            /\ UNCHANGED work
       ELSE /\ wi' = [wi EXCEPT ![p][t] = 0]
            /\ work' = [work EXCEPT ![p][t] = << >>]
            /\ Goto(p, t, "Delete")
  /\ UNCHANGED <<cfgVars, rpcVars, queueVars, mainVars, seen, acc,
                 global_result_, histVars>>

\* Lines 118-119 with the i++ of line 101 missing: the same root again.
RunUnlockResultNoIncrement(p, t) ==
  /\ At(p, t, "UnlockResult")
  /\ mutex_' = [mutex_ EXCEPT ![p] = Free]
  /\ Goto(p, t, "LockSubmodule")
  /\ UNCHANGED <<cfgVars, rpcVars, queueVars, mainVars, work, wi, seen, acc,
                 global_result_, histVars>>

\* lines 118-119 and 101, 90-91: Unlock, i++, then the next root of the grain
\* or the top of the while loop with a fresh work list.
RunUnlockResult(p, t) ==
  /\ At(p, t, "UnlockResult")
  /\ mutex_' = [mutex_ EXCEPT ![p] = Free]
  /\ IF wi[p][t] < Len(work[p][t])
       THEN /\ wi' = [wi EXCEPT ![p][t] = @ + 1]
            /\ Goto(p, t, "LockSubmodule")
            /\ UNCHANGED work
       ELSE /\ wi' = [wi EXCEPT ![p][t] = 0]
            /\ work' = [work EXCEPT ![p][t] = << >>]
            /\ Goto(p, t, "LockQueue")
  /\ UNCHANGED <<cfgVars, rpcVars, queueVars, mainVars, seen, acc,
                 global_result_, histVars>>

\* line 121: delete this; the thread stops.
RunDelete(p, t) ==
  /\ At(p, t, "Delete")
  /\ Goto(p, t, "Stopped")
  /\ UNCHANGED <<cfgVars, rpcVars, queueVars, mainVars, work, wi, seen, acc,
                 sharedVars, histVars>>

Run(p, t) ==
  \/ RunLockQueue(p, t)
  \/ RunGetWorkRead(p, t)
  \/ RunGetWorkTake(p, t)
  \/ RunUnlockQueue(p, t)
  \/ RunLockSubmodule(p, t)
  \/ RunSubmodule(p, t)
  \/ RunSolveBegin(p, t)
  \/ RunSolveEnd(p, t)
  \/ RunLockResult(p, t)
  \/ RunAccumulateRead(p, t)
  \/ RunAccumulateWrite(p, t)
  \/ RunUnlockResult(p, t)
  \/ RunDelete(p, t)

\* ---------------------------------------- ThreadedDualTreeSolver::InitSolve
\* lines 174-189: the fields are set and global_result_ is initialised; with
\* no thread to start, both loops of lines 191-200 are skipped.
InitSolveBegin(p) ==
  /\ p \in Peers
  /\ dpc[p] = "InitSolve"
  /\ global_result_' = [global_result_ EXCEPT ![p] = 0]
  /\ ti' = [ti EXCEPT ![p] = 0]
  /\ dpc' = [dpc EXCEPT ![p] = IF n_threads[p] = 0 THEN "Report" ELSE "StartThreads"]
  /\ UNCHANGED <<cfgVars, rpcVars, queueVars, work_queue_, n_threads, reported,
                 workerVars, mutex_, histVars>>

\* lines 191-195: one pass of the loop that creates and starts the threads;
\* after the last pass the loop of line 197 begins with i = 0.
InitSolveStart(p) ==
  /\ p \in Peers
  /\ dpc[p] = "StartThreads"
  /\ ti[p] < n_threads[p]
  /\ wpc' = [wpc EXCEPT ![p][ti[p] + 1] = "LockQueue"]
  /\ IF ti[p] + 1 < n_threads[p]
       THEN /\ ti' = [ti EXCEPT ![p] = @ + 1]
            /\ UNCHANGED dpc
       ELSE /\ ti' = [ti EXCEPT ![p] = 0]
            /\ dpc' = [dpc EXCEPT ![p] = "WaitStop"]
  /\ UNCHANGED <<cfgVars, rpcVars, queueVars, work_queue_, n_threads, reported,
                 work, wi, seen, acc, sharedVars, histVars>>

\* Lines 197-200 with a WaitStop that does not wait for the thread.
InitSolveWaitStopNoWait(p) ==
  /\ p \in Peers
  /\ dpc[p] = "WaitStop"
  /\ ti[p] < n_threads[p]
  /\ IF ti[p] + 1 < n_threads[p]
       THEN /\ ti' = [ti EXCEPT ![p] = @ + 1]
            /\ UNCHANGED dpc
       ELSE /\ ti' = [ti EXCEPT ![p] = 0]
            /\ dpc' = [dpc EXCEPT ![p] = "Report"]
  /\ UNCHANGED <<cfgVars, rpcVars, queueVars, work_queue_, n_threads, reported,
                 workerVars, sharedVars, histVars>>

\* lines 197-200: one pass of the loop that joins and deletes the threads;
\* WaitStop returns once the thread has stopped.
InitSolveWaitStop(p) ==
  /\ p \in Peers
  /\ dpc[p] = "WaitStop"
  /\ ti[p] < n_threads[p]
  /\ wpc[p][ti[p] + 1] = "Stopped"
  /\ wpc' = [wpc EXCEPT ![p][ti[p] + 1] = "Joined"]
  /\ IF ti[p] + 1 < n_threads[p]
       THEN /\ ti' = [ti EXCEPT ![p] = @ + 1]
            /\ UNCHANGED dpc
       ELSE /\ ti' = [ti EXCEPT ![p] = 0]
            /\ dpc' = [dpc EXCEPT ![p] = "Report"]
  /\ UNCHANGED <<cfgVars, rpcVars, queueVars, work_queue_, n_threads, reported,
                 work, wi, seen, acc, sharedVars, histVars>>

\* lines 204-206: global_result_.Report, and InitSolve returns to its caller.
InitSolveReport(p) ==
  /\ p \in Peers
  /\ dpc[p] = "Report"
  /\ reported' = [reported EXCEPT ![p] = TRUE]
  /\ dpc' = [dpc EXCEPT ![p] = IF runner = "local" THEN "Returned" ELSE "Barrier2"]
  /\ UNCHANGED <<cfgVars, rpcVars, queueVars, work_queue_, n_threads, ti,
                 workerVars, sharedVars, histVars>>

InitSolve(p) ==
  \/ InitSolveBegin(p)
  \/ InitSolveStart(p)
  \/ InitSolveWaitStop(p)
  \/ InitSolveReport(p)

\* -------------------------------------------- ThreadedDualTreeSolver::Solve
\* Line 148 without the conditional: three grains per thread always.
SolveDefaultGrainsNoSpecialCase(nt) == nt * 3

\* line 148: the default of the "n_grains" parameter.
SolveDefaultGrains(nt) == IF nt = 1 THEN 1 ELSE nt * 3

GrainsParam(default) ==
  IF n_grains_param = << >> THEN default ELSE n_grains_param[1]

\* lines 146-160: read the parameters, build the SimpleWorkQueue over the
\* query tree and call InitSolve.
Solve ==
  /\ runner = "local"
  /\ dpc[MASTER_RANK] = "Solve"
  /\ n_threads' = [n_threads EXCEPT ![MASTER_RANK] = n_threads_param]
  /\ n_grains' = GrainsParam(SolveDefaultGrains(n_threads_param))
  /\ grains' \in Partitions(n_roots, n_grains')
  /\ claim' = 0
  /\ work_queue_' = [work_queue_ EXCEPT ![MASTER_RANK] = "simple"]
  /\ dpc' = [dpc EXCEPT ![MASTER_RANK] = "InitSolve"]
  /\ UNCHANGED <<cfgVars, rpcVars, qlock, ti, reported, workerVars, sharedVars,
                 histVars>>

\* ------------------------------------------------------------------- Init
\* A destroyed (or never constructed) RectangleTree object.
Destroyed ==
  [alive |-> FALSE, numChildren |-> 0, children |-> << >>, parent |-> NULL,
   count |-> 0, dataset |-> << >>, bound |-> << >>]

\* No call yet: the operation, the node it was called on, the point handed
\* to it and the value it returned (0 where the call has none).
NoCall == [op |-> "none", node |-> NULL, point |-> 0, ret |-> 0]

\* No RectangleTree exists in the solver's and the runner's programs.
NoTree ==
  /\ maxLeafSize = 0
  /\ minLeafSize = 0
  /\ maxNumChildren = 0
  /\ minNumChildren = 0
  /\ nodes = [n \in NodeIds |-> Destroyed]
  /\ ndebug = FALSE
  /\ aborted = FALSE
  /\ last = NoCall
  /\ data = << >>
  /\ firstDataIndex = 0
  /\ cpc = "Off"
  /\ ci = 0
  /\ inserts = 0

Modes == {"naive", "single", "dual"}

\* No AllkNN object exists in the program.
NoKnn ==
  /\ references = << >>
  /\ queries = << >>
  /\ monochromatic = FALSE
  /\ knns = 0
  /\ neighbors = [m \in Modes |-> << >>]
  /\ distances = [m \in Modes |-> << >>]
  /\ pruned = [m \in Modes |-> 0]

\* No StatFixer runs in the program.
NoFix ==
  /\ nodes_ = << >>
  /\ points_ = << >>
  /\ fpc = "Off"
  /\ stack = << >>
  /\ stat_ops = << >>

InitCommon ==
  /\ NoTree
  /\ NoKnn
  /\ NoFix
  /\ n_threads_param \in 1 .. MaxThreads
  /\ n_grains_param \in {<< >>} \cup {<<g>> : g \in 1 .. MaxGrains}
  /\ n_roots \in 1 .. MaxRoots
  /\ config_ = [p \in PeerIds |-> 0]
  /\ param_ = [p \in PeerIds |-> "uninitialised"]
  /\ work_queue_ = [p \in PeerIds |-> "none"]
  /\ registered = {}
  /\ barrier = [b \in BarrierIds |-> {}]
  /\ flushed = [p \in PeerIds |-> {}]
  /\ n_threads = [p \in PeerIds |-> 0]
  /\ n_grains = 0
  /\ grains = << >>
  /\ claim = 0
  /\ qlock = << >>
  /\ ti = [p \in PeerIds |-> 0]
  /\ mutex_ = [p \in PeerIds |-> Free]
  /\ global_result_ = [p \in PeerIds |-> 0]
  /\ reported = [p \in PeerIds |-> FALSE]
  /\ wpc = [p \in PeerIds |-> [t \in ThreadIds |-> "NotStarted"]]
  /\ work = [p \in PeerIds |-> [t \in ThreadIds |-> << >>]]
  /\ wi = [p \in PeerIds |-> [t \in ThreadIds |-> 0]]
  /\ seen = [p \in PeerIds |-> [t \in ThreadIds |-> 0]]
  /\ acc = [p \in PeerIds |-> [t \in ThreadIds |-> 0]]
  /\ returns = << >>
  /\ solves = [r \in 1 .. MaxRoots |-> 0]
  /\ merged = [r \in 1 .. MaxRoots |-> 0]

\* MonochromaticDualTreeMain, lines 216-264: one process, tree built, about
\* to call ThreadedDualTreeSolver::Solve.
Init ==
  /\ runner = "local"
  /\ n_peers = 1
  /\ dpc = [p \in PeerIds |-> IF p = MASTER_RANK THEN "Solve" ELSE "Off"]
  /\ InitCommon

Next ==
  \/ Solve
  \/ \E p \in PeerIds : InitSolve(p)
  \/ \E p \in PeerIds, t \in ThreadIds : Run(p, t)

Spec == Init /\ [][Next]_vars

\* ------------------------------------------------------------- rpc layer
\* rpc::Barrier(channel): the caller arrives, then leaves once every peer
\* has arrived at the same channel; there is no timeout.
RpcBarrier(p, channel, from, to) ==
  /\ p \in Peers
  /\ dpc[p] = from
  /\ \/ /\ p \notin barrier[channel]
        /\ barrier' = [barrier EXCEPT ![channel] = @ \cup {p}]
        /\ UNCHANGED dpc
     \/ /\ p \in barrier[channel]
        /\ barrier[channel] = Peers
        /\ dpc' = [dpc EXCEPT ![p] = to]
        /\ UNCHANGED barrier
  /\ UNCHANGED <<cfgVars, config_, param_, registered, flushed, queueVars, work_queue_,
                 n_threads, ti, reported, workerVars, sharedVars, histVars>>

\* rpc::GetRemoteData(channel, MASTER_RANK, ...): answered by the backend the
\* master registered for the channel.
RemoteDataReady(channel) == channel \in registered

\* A main-thread step of Doit that only moves on.
DoitStep(p, from, to) ==
  /\ p \in Peers
  /\ dpc[p] = from
  /\ dpc' = [dpc EXCEPT ![p] = to]

\* ---------------------------------- RpcMonochromaticDualTreeRunner::Doit
\* lines 424-436: rpc::Init, Preinit_, Configure; the rank picks the branch.
DoitBegin(p) ==
  /\ DoitStep(p, "Doit", IF p = MASTER_RANK THEN "ReadData" ELSE "InitWorker")
  /\ UNCHANGED <<cfgVars, rpcVars, queueVars, work_queue_, n_threads, ti,
                 reported, workerVars, sharedVars, histVars>>

\* lines 437-443: param_.Init, ReadData_ (with BootstrapMonochromatic, line
\* 370), MakeTree_, q_results_.InitMaster: param_ is complete afterwards.
DoitMasterLoad(p) ==
  /\ p = MASTER_RANK
  /\ DoitStep(p, "ReadData", "SetupConfig")
  /\ param_' = [param_ EXCEPT ![p] = "bootstrapped"]
  /\ UNCHANGED <<cfgVars, config_, registered, barrier, flushed, queueVars,
                 work_queue_, n_threads, ti, reported, workerVars, sharedVars,
                 histVars>>

\* Lines 396-401 without the assignment of line 399: config_ is exported
\* before n_threads is set.
SetupMasterConfigUnset(p) ==
  /\ p = MASTER_RANK
  /\ DoitStep(p, "SetupConfig", "SetupParam")
  /\ registered' = registered \cup {CONFIG_CHANNEL}
  /\ UNCHANGED <<cfgVars, config_, param_, barrier, flushed, queueVars,
                 work_queue_, n_threads, ti, reported, workerVars, sharedVars,
                 histVars>>

\* SetupMaster_, lines 396-401: config_ is set and exported.
SetupMasterConfig(p) ==
  /\ p = MASTER_RANK
  /\ DoitStep(p, "SetupConfig", "SetupParam")
  /\ config_' = [config_ EXCEPT ![p] = n_threads_param]
  /\ registered' = registered \cup {CONFIG_CHANNEL}
  /\ UNCHANGED <<cfgVars, param_, barrier, flushed, queueVars, work_queue_,
                 n_threads, ti, reported, workerVars, sharedVars, histVars>>

\* SetupMaster_, lines 404-405: param_ is exported.
SetupMasterParam(p) ==
  /\ p = MASTER_RANK
  /\ DoitStep(p, "SetupParam", "SetupWork")
  /\ registered' = registered \cup {PARAM_CHANNEL}
  /\ UNCHANGED <<cfgVars, config_, param_, barrier, flushed, queueVars,
                 work_queue_, n_threads, ti, reported, workerVars, sharedVars,
                 histVars>>

\* line 411: the default of the "n_grains" parameter.
SetupMasterDefaultGrains(nt, np) == nt * np * 3

\* Lines 408-418 without the LockedWorkQueue of line 415: the bare
\* SimpleWorkQueue is exported.
SetupMasterWorkUnlocked(p) ==
  /\ p = MASTER_RANK
  /\ DoitStep(p, "SetupWork", "FixBoundaries")
  /\ n_grains' = GrainsParam(config_[p] * n_peers * 3)
  /\ grains' \in Partitions(n_roots, n_grains')
  /\ claim' = 0
  /\ work_queue_' = [work_queue_ EXCEPT ![p] = "simple"]
  /\ registered' = registered \cup {WORK_CHANNEL}
  /\ UNCHANGED <<cfgVars, config_, param_, barrier, flushed, qlock, n_threads,
                 ti, reported, workerVars, sharedVars, histVars>>

\* SetupMaster_, lines 408-418: the SimpleWorkQueue over data_nodes_, wrapped
\* in a LockedWorkQueue and exported on WORK_CHANNEL.
SetupMasterWork(p) ==
  /\ p = MASTER_RANK
  /\ DoitStep(p, "SetupWork", "FixBoundaries")
  /\ n_grains' = GrainsParam(SetupMasterDefaultGrains(config_[p], n_peers))
  /\ grains' \in Partitions(n_roots, n_grains')
  /\ claim' = 0
  /\ work_queue_' = [work_queue_ EXCEPT ![p] = "locked"]
  /\ registered' = registered \cup {WORK_CHANNEL}
  /\ UNCHANGED <<cfgVars, config_, param_, barrier, flushed, qlock, n_threads, ti,
                 reported, workerVars, sharedVars, histVars>>

\* lines 447-449: FixBoundaries of the three arrays.
DoitFixBoundaries(p) ==
  /\ p = MASTER_RANK
  /\ DoitStep(p, "FixBoundaries", "Barrier0")
  /\ UNCHANGED <<cfgVars, rpcVars, queueVars, work_queue_, n_threads, ti,
                 reported, workerVars, sharedVars, histVars>>

\* lines 451-453: InitWorker of the three arrays.
DoitInitWorker(p) ==
  /\ p # MASTER_RANK
  /\ DoitStep(p, "InitWorker", "GetConfig")
  /\ UNCHANGED <<cfgVars, rpcVars, queueVars, work_queue_, n_threads, ti,
                 reported, workerVars, sharedVars, histVars>>

\* line 455: rpc::GetRemoteData(CONFIG_CHANNEL, MASTER_RANK, &config_)
DoitGetConfig(p) ==
  /\ p # MASTER_RANK
  /\ DoitStep(p, "GetConfig", "GetParam")
  /\ RemoteDataReady(CONFIG_CHANNEL)
  /\ config_' = [config_ EXCEPT ![p] = config_[MASTER_RANK]]
  /\ UNCHANGED <<cfgVars, param_, registered, barrier, flushed, queueVars, work_queue_,
                 n_threads, ti, reported, workerVars, sharedVars, histVars>>

\* line 456: rpc::GetRemoteData(PARAM_CHANNEL, MASTER_RANK, &param_)
DoitGetParam(p) ==
  /\ p # MASTER_RANK
  /\ DoitStep(p, "GetParam", "RemoteQueue")
  /\ RemoteDataReady(PARAM_CHANNEL)
  /\ param_' = [param_ EXCEPT ![p] = param_[MASTER_RANK]]
  /\ UNCHANGED <<cfgVars, config_, registered, barrier, flushed, queueVars,
                 work_queue_, n_threads, ti, reported, workerVars, sharedVars,
                 histVars>>

\* lines 458-460: the RemoteWorkQueue onto the master's WORK_CHANNEL.
DoitRemoteQueue(p) ==
  /\ p # MASTER_RANK
  /\ DoitStep(p, "RemoteQueue", "Barrier0")
  /\ work_queue_' = [work_queue_ EXCEPT ![p] = "remote"]
  /\ UNCHANGED <<cfgVars, rpcVars, queueVars, n_threads, ti, reported,
                 workerVars, sharedVars, histVars>>

\* line 463: rpc::Barrier(BARRIER_CHANNEL+0)
DoitBarrier0(p) == RpcBarrier(p, BARRIER_CHANNEL + 0, "Barrier0", "FlushPoints")

\* One FlushClear of Doit: the array is flushed and the main thread moves on.
DoitFlushClear(p, array, from, to) ==
  /\ DoitStep(p, from, to)
  /\ flushed' = [flushed EXCEPT ![p] = @ \cup {array}]
  /\ UNCHANGED <<cfgVars, config_, param_, registered, barrier, queueVars, work_queue_,
                 n_threads, ti, reported, workerVars, sharedVars, histVars>>

\* line 467: data_points_.FlushClear(BlockDevice::READ)
DoitFlushPoints(p) == DoitFlushClear(p, "data_points_", "FlushPoints", "FlushNodes")

\* line 468: data_nodes_.FlushClear(BlockDevice::READ)
DoitFlushNodes(p) == DoitFlushClear(p, "data_nodes_", "FlushNodes", "FlushCreate")

\* line 469: q_results_.FlushClear(BlockDevice::CREATE)
DoitFlushCreate(p) == DoitFlushClear(p, "q_results_", "FlushCreate", "Barrier1")

\* Line 470 missing: no barrier between the data flush and the compute phase.
DoitBarrier1Skipped(p) ==
  /\ DoitStep(p, "Barrier1", "Compute")
  /\ UNCHANGED <<cfgVars, rpcVars, queueVars, work_queue_, n_threads, ti,
                 reported, workerVars, sharedVars, histVars>>

\* line 470: rpc::Barrier(BARRIER_CHANNEL+1)
DoitBarrier1(p) == RpcBarrier(p, BARRIER_CHANNEL + 1, "Barrier1", "Compute")

\* lines 474-480: the solver is constructed and InitSolve is called with
\* config_.n_threads and work_queue_.
DoitCallInitSolve(p) ==
  /\ DoitStep(p, "Compute", "InitSolve")
  /\ n_threads' = [n_threads EXCEPT ![p] = config_[p]]
  /\ UNCHANGED <<cfgVars, rpcVars, queueVars, work_queue_, ti, reported,
                 workerVars, sharedVars, histVars>>

\* Line 481 missing: no barrier between the compute phase and the result flush.
DoitBarrier2Skipped(p) ==
  /\ DoitStep(p, "Barrier2", "FlushRead")
  /\ UNCHANGED <<cfgVars, rpcVars, queueVars, work_queue_, n_threads, ti,
                 reported, workerVars, sharedVars, histVars>>

\* line 481: rpc::Barrier(BARRIER_CHANNEL+2)
DoitBarrier2(p) == RpcBarrier(p, BARRIER_CHANNEL + 2, "Barrier2", "FlushRead")

\* line 485: q_results_.FlushClear(BlockDevice::READ)
DoitFlushRead(p) == DoitFlushClear(p, "q_results_read", "FlushRead", "Barrier3")

\* Line 486 with a barrier that gives up waiting: the peer goes on to
\* rpc::Done whoever is missing.
DoitBarrier3Skipped(p) ==
  /\ DoitStep(p, "Barrier3", "Done")
  /\ UNCHANGED <<cfgVars, rpcVars, queueVars, work_queue_, n_threads, ti,
                 reported, workerVars, sharedVars, histVars>>

\* line 486: rpc::Barrier(BARRIER_CHANNEL+3)
DoitBarrier3(p) == RpcBarrier(p, BARRIER_CHANNEL + 3, "Barrier3", "Done")

\* line 489: rpc::Done()
DoitDone(p) ==
  /\ DoitStep(p, "Done", "Exited")
  /\ UNCHANGED <<cfgVars, rpcVars, queueVars, work_queue_, n_threads, ti,
                 reported, workerVars, sharedVars, histVars>>

Doit(p) ==
  \/ DoitBegin(p)
  \/ DoitMasterLoad(p)
  \/ SetupMasterConfig(p)
  \/ SetupMasterParam(p)
  \/ SetupMasterWork(p)
  \/ DoitFixBoundaries(p)
  \/ DoitInitWorker(p)
  \/ DoitGetConfig(p)
  \/ DoitGetParam(p)
  \/ DoitRemoteQueue(p)
  \/ DoitBarrier0(p)
  \/ DoitFlushPoints(p)
  \/ DoitFlushNodes(p)
  \/ DoitFlushCreate(p)
  \/ DoitBarrier1(p)
  \/ DoitCallInitSolve(p)
  \/ DoitBarrier2(p)
  \/ DoitFlushRead(p)
  \/ DoitBarrier3(p)
  \/ DoitDone(p)

\* RpcMonochromaticDualTreeMain, lines 493-496: n_peers processes, each
\* about to call Doit.
InitRpc ==
  /\ runner = "rpc"
  /\ n_peers \in 1 .. MaxPeers
  /\ dpc = [p \in PeerIds |-> IF p < n_peers THEN "Doit" ELSE "Off"]
  /\ InitCommon
  /\ n_peers * n_threads_param <= MaxRpcWorkers
  /\ n_roots <= MaxRpcRoots
  /\ n_grains_param \in {<< >>} \cup {<<g>> : g \in 1 .. MaxRpcGrains}

NextRpc ==
  \/ \E p \in PeerIds : Doit(p)
  \/ \E p \in PeerIds : InitSolve(p)
  \/ \E p \in PeerIds, t \in ThreadIds : Run(p, t)

SpecRpc == InitRpc /\ [][NextRpc]_vars

\* The set-up phase of both runners: the local Solve up to its call of
\* InitSolve, and Doit up to the first barrier (SetupMaster_ on the master,
\* the remote fetches on the workers).
InitSetup == Init \/ InitRpc

NextSetup ==
  \/ Solve
  \/ \E p \in PeerIds : DoitBegin(p)
  \/ \E p \in PeerIds : DoitMasterLoad(p)
  \/ \E p \in PeerIds : SetupMasterConfig(p)
  \/ \E p \in PeerIds : SetupMasterParam(p)
  \/ \E p \in PeerIds : SetupMasterWork(p)
  \/ \E p \in PeerIds : DoitFixBoundaries(p)
  \/ \E p \in PeerIds : DoitInitWorker(p)
  \/ \E p \in PeerIds : DoitGetConfig(p)
  \/ \E p \in PeerIds : DoitGetParam(p)
  \/ \E p \in PeerIds : DoitRemoteQueue(p)

SpecSetup == InitSetup /\ [][NextSetup]_vars

\* The local run under the scheduler's guarantee that, while some thread can
\* take a step, some step is eventually taken.
LiveSpec == Init /\ [][Next]_vars /\ WF_vars(Next)

\* ============================================================ RectangleTree
\* The solver's and the runner's variables, at rest while a tree is built.
solverVars ==
  <<runner, n_peers, n_threads_param, n_grains_param, n_roots, rpcVars,
    queueVars, mainVars, workerVars, sharedVars, histVars, fixVars>>

Max(a, b) == IF a > b THEN a ELSE b

\* ------------------------------------------------------------ the bound type
\* An interval << lo, hi >> on the line, << >> when it holds no point yet.
\* bound |= point
BoundExpand(b, x) ==
  IF b = << >> THEN <<x, x>> ELSE <<Min(b[1], x), Max(b[2], x)>>

\* bound |= other bound
BoundUnion(a, b) ==
  IF a = << >> THEN b
  ELSE IF b = << >> THEN a
  ELSE <<Min(a[1], b[1]), Max(a[2], b[2])>>

BoundContains(b, x) == b # << >> /\ b[1] <= x /\ x <= b[2]

BoundWidth(b) == IF b = << >> THEN 0 ELSE b[2] - b[1]

\* DescentType::EvalNode(bound, point): what the bound must grow by to take
\* the point in.
EvalNode(b, x) == BoundWidth(BoundExpand(b, x)) - BoundWidth(b)

RECURSIVE HullOfPoints(_)
HullOfPoints(pts) ==
  IF pts = << >> THEN << >>
  ELSE BoundExpand(HullOfPoints(Tail(pts)), Head(pts))

RECURSIVE HullOfNodes(_, _)
HullOfNodes(T, kids) ==
  IF kids = << >> THEN << >>
  ELSE BoundUnion(T[Head(kids)].bound, HullOfNodes(T, Tail(kids)))

\* -------------------------------------------------------------- the objects
Alive(T) == {n \in NodeIds : T[n].alive}

\* operator new: the lowest free address.
NewNode(T) == CHOOSE n \in NodeIds \ Alive(T) : \A m \in NodeIds \ Alive(T) : n <= m

\* RectangleTree(parentNode), lines 59-75: an empty leaf below parentNode.
ChildNode(parentNode) ==
  [alive |-> TRUE, numChildren |-> 0, children |-> << >>, parent |-> parentNode,
   count |-> 0, dataset |-> << >>, bound |-> << >>]

\* ~RectangleTree, lines 86-94: delete of node n deletes the children the
\* node still lists, each with its own children, and then the object.
RECURSIVE DeleteNode(_, _)
RECURSIVE DeleteNodes(_, _)
DeleteNode(T, n) ==
  [DeleteNodes(T, SubSeq(T[n].children, 1, T[n].numChildren)) EXCEPT ![n] = Destroyed]
DeleteNodes(T, kids) ==
  IF kids = << >> THEN T ELSE DeleteNodes(DeleteNode(T, Head(kids)), Tail(kids))

\* Lines 110-115 without lines 111-114: the node is deleted while it still
\* lists its children.
softDeleteKeepsChildren(T, n) == DeleteNode([T EXCEPT ![n].parent = NULL], n)

\* softDelete, lines 105-116: the links of the node are cleared and the
\* object is deleted; its children are left as they are.
softDelete(T, n) ==
  DeleteNode([T EXCEPT ![n].parent = NULL, ![n].children = << >>,
                       ![n].numChildren = 0], n)

\* Some live object holds the address of a destroyed one: a call that
\* follows the link reads freed memory, and the model follows a run no
\* further than that.
Dangling(T) ==
  \E m \in Alive(T) :
    \/ T[m].parent # NULL /\ T[m].parent \notin Alive(T)
    \/ \E k \in 1 .. T[m].numChildren : T[m].children[k] \notin Alive(T)

\* The elements of s at the positions in h, in order.
RECURSIVE PickFrom(_, _, _)
PickFrom(s, h, i) ==
  IF i > Len(s) THEN << >>
  ELSE (IF i \in h THEN <<s[i]>> ELSE << >>) \o PickFrom(s, h, i + 1)

Range(s) == {s[i] : i \in 1 .. Len(s)}

\* The ways a split strategy may divide n entries into two groups of at
\* least m entries each: the positions that go to the first group.
Halves(n, m) ==
  {h \in SUBSET (1 .. n) : Cardinality(h) >= m /\ n - Cardinality(h) >= m}

\* In the children list of p, a takes the place of n and b is added at the end.
ReplaceChild(T, p, n, a, b) ==
  [T EXCEPT ![p].children =
              [i \in 1 .. Len(@) |-> IF @[i] = n THEN a ELSE @[i]] \o <<b>>,
            ![p].numChildren = @ + 1]

\* ---------------------------------------------------------- the SplitType
\* SplitType::SplitNonLeafNode: the children of n go to two new nodes; the
\* root keeps its address and gets the two as its children, any other node
\* is replaced by them in its parent and deleted, and a parent that now has
\* maxNumChildren + 1 children is split in turn.
RECURSIVE SplitNonLeafNode(_, _)
SplitNonLeafNode(T, n) ==
  UNION {
    LET kidsA == PickFrom(T[n].children, h, 1)
        kidsB == PickFrom(T[n].children, (1 .. T[n].numChildren) \ h, 1)
        up == IF T[n].parent = NULL THEN n ELSE T[n].parent
        a == NewNode(T)
        Ta == [T EXCEPT ![a] = [ChildNode(up) EXCEPT
                                  !.numChildren = Len(kidsA),
                                  !.children = kidsA,
                                  !.bound = HullOfNodes(T, kidsA)]]
        b == NewNode(Ta)
        Tb == [Ta EXCEPT ![b] = [ChildNode(up) EXCEPT
                                   !.numChildren = Len(kidsB),
                                   !.children = kidsB,
                                   !.bound = HullOfNodes(T, kidsB)]]
        Tc == [m \in NodeIds |->
                 IF m \in Range(kidsA) THEN [Tb[m] EXCEPT !.parent = a]
                 ELSE IF m \in Range(kidsB) THEN [Tb[m] EXCEPT !.parent = b]
                 ELSE Tb[m]]
    IN IF T[n].parent = NULL
         THEN {[Tc EXCEPT ![n].children = <<a, b>>, ![n].numChildren = 2]}
         ELSE LET Td == softDelete(ReplaceChild(Tc, up, n, a, b), n)
              IN IF Td[up].numChildren = maxNumChildren + 1
                   THEN SplitNonLeafNode(Td, up)
                   ELSE {Td}
    : h \in Halves(T[n].numChildren, Max(1, minNumChildren))}

\* SplitType::SplitLeafNode: the points of leaf n go to two new leaves of at
\* least minLeafSize points each; the root keeps its address and becomes
\* their parent, any other leaf is replaced by them in its parent and
\* deleted, and a parent that now has maxNumChildren + 1 children is split.
SplitLeafNode(T, n) ==
  UNION {
    LET ptsA == PickFrom(T[n].dataset, h, 1)
        ptsB == PickFrom(T[n].dataset, (1 .. T[n].count) \ h, 1)
        up == IF T[n].parent = NULL THEN n ELSE T[n].parent
        a == NewNode(T)
        Ta == [T EXCEPT ![a] = [ChildNode(up) EXCEPT
                                  !.count = Len(ptsA),
                                  !.dataset = ptsA,
                                  !.bound = HullOfPoints(ptsA)]]
        b == NewNode(Ta)
        Tb == [Ta EXCEPT ![b] = [ChildNode(up) EXCEPT
                                   !.count = Len(ptsB),
                                   !.dataset = ptsB,
                                   !.bound = HullOfPoints(ptsB)]]
    IN IF T[n].parent = NULL
         THEN {[Tb EXCEPT ![n].children = <<a, b>>, ![n].numChildren = 2,
                          ![n].count = 0, ![n].dataset = << >>]}
         ELSE LET Td == softDelete(ReplaceChild(Tb, up, n, a, b), n)
              IN IF Td[up].numChildren = maxNumChildren + 1
                   THEN SplitNonLeafNode(Td, up)
                   ELSE {Td}
    : h \in Halves(T[n].count, Max(1, minLeafSize))}

\* ------------------------------------------------------------ RectangleTree
\* SplitNode after its assertion, lines 345-351: the trees the call may leave.
SplitNodeBody(T, n) ==
  IF T[n].count < maxLeafSize THEN {T} ELSE SplitLeafNode(T, n)

\* Lines 155-164 with `<=` in the test of line 158: the last child with the
\* least EvalNode score.
BestIndexLastOfTies(T, n, point) ==
  CHOOSE i \in 1 .. T[n].numChildren :
    /\ \A j \in 1 .. T[n].numChildren :
         EvalNode(T[T[n].children[i]].bound, point)
           <= EvalNode(T[T[n].children[j]].bound, point)
    /\ \A j \in (i + 1) .. T[n].numChildren :
         EvalNode(T[T[n].children[j]].bound, point)
           > EvalNode(T[T[n].children[i]].bound, point)

\* lines 155-164: the first child with the least EvalNode score.
BestIndex(T, n, point) ==
  CHOOSE i \in 1 .. T[n].numChildren :
    /\ \A j \in 1 .. T[n].numChildren :
         EvalNode(T[T[n].children[i]].bound, point)
           <= EvalNode(T[T[n].children[j]].bound, point)
    /\ \A j \in 1 .. (i - 1) :
         EvalNode(T[T[n].children[j]].bound, point)
           > EvalNode(T[T[n].children[i]].bound, point)

\* Line 144 missing: the bound of the node is left as it was.
InsertPointBoundKept(T, n, point) == T

\* line 144: bound |= point
InsertPointBound(T, n, point) ==
  [T EXCEPT ![n].bound = BoundExpand(@, point)]

\* Lines 147-151 without the call of line 149.
InsertPointLeafNoSplit(T, n, point) ==
  {[T EXCEPT ![n].dataset = Append(@, point), ![n].count = @ + 1]}

\* lines 147-151: the point is stored in the leaf and SplitNode is called.
InsertPointLeaf(T, n, point) ==
  SplitNodeBody([T EXCEPT ![n].dataset = Append(@, point), ![n].count = @ + 1], n)

\* InsertPoint called on node n, lines 140-166: the trees the call may leave.
RECURSIVE InsertPointAt(_, _, _)
InsertPointAt(T, n, point) ==
  LET T1 == InsertPointBound(T, n, point)
  IN IF T1[n].numChildren = 0
       THEN InsertPointLeaf(T1, n, point)
       ELSE InsertPointAt(T1, T1[n].children[BestIndex(T1, n, point)], point)

\* NumDescendants, lines 274-286.
RECURSIVE SumDescendants(_, _)
NumDescendants(T, n) ==
  IF T[n].numChildren = 0 THEN T[n].count ELSE SumDescendants(T, T[n].children)
SumDescendants(T, kids) ==
  IF kids = << >> THEN 0
  ELSE NumDescendants(T, Head(kids)) + SumDescendants(T, Tail(kids))

\* root->InsertPoint(point), as the constructor (line 51) and the users of
\* the tree call it.
InsertPoint(point) ==
  /\ ~aborted
  /\ cpc = "Done"
  /\ nodes[RootId].alive
  /\ ~Dangling(nodes)
  /\ NumDescendants(nodes, RootId) < MaxPoints
  /\ nodes' \in InsertPointAt(nodes, RootId, point)
  /\ last' = [NoCall EXCEPT !.op = "InsertPoint", !.node = RootId, !.point = point]
  /\ inserts' = inserts + 1
  /\ UNCHANGED <<solverVars, knnVars, maxLeafSize, minLeafSize, maxNumChildren,
                 minNumChildren, ndebug, aborted, ctorVars>>

\* Lines 339-352 with the test of line 346 made against two points
\* instead of maxLeafSize: any leaf that can be divided is split.
SplitNodeIgnoresMaxLeafSize(n) ==
  /\ ~aborted
  /\ cpc = "Done"
  /\ nodes[n].alive
  /\ ~Dangling(nodes)
  /\ IF nodes[n].numChildren # 0 /\ ~ndebug
       THEN aborted' = TRUE /\ nodes' = nodes
       ELSE /\ aborted' = aborted
            /\ nodes' \in (IF nodes[n].count < 2 * Max(1, minLeafSize)
                              THEN {nodes} ELSE SplitLeafNode(nodes, n))
  /\ last' = [NoCall EXCEPT !.op = "SplitNode", !.node = n]
  /\ UNCHANGED <<solverVars, knnVars, maxLeafSize, minLeafSize, maxNumChildren,
                 minNumChildren, ndebug, ctorVars, inserts>>

\* SplitNode called on node n, lines 339-352. The assertion of line 343 ends
\* the process unless the build defines NDEBUG.
SplitNode(n) ==
  /\ ~aborted
  /\ cpc = "Done"
  /\ nodes[n].alive
  /\ ~Dangling(nodes)
  /\ IF nodes[n].numChildren # 0 /\ ~ndebug
       THEN aborted' = TRUE /\ nodes' = nodes
       ELSE aborted' = aborted /\ nodes' \in SplitNodeBody(nodes, n)
  /\ last' = [NoCall EXCEPT !.op = "SplitNode", !.node = n]
  /\ UNCHANGED <<solverVars, knnVars, maxLeafSize, minLeafSize, maxNumChildren,
                 minNumChildren, ndebug, ctorVars, inserts>>

\* No solver and no runner in the program that builds the tree.
NoSolver ==
  /\ runner = "none"
  /\ n_peers = 0
  /\ n_threads_param = 1
  /\ n_grains_param = << >>
  /\ n_roots = 1
  /\ dpc = [p \in PeerIds |-> "Off"]
  /\ config_ = [p \in PeerIds |-> 0]
  /\ param_ = [p \in PeerIds |-> "uninitialised"]
  /\ work_queue_ = [p \in PeerIds |-> "none"]
  /\ registered = {}
  /\ barrier = [b \in BarrierIds |-> {}]
  /\ flushed = [p \in PeerIds |-> {}]
  /\ n_threads = [p \in PeerIds |-> 0]
  /\ n_grains = 0
  /\ grains = << >>
  /\ claim = 0
  /\ qlock = << >>
  /\ ti = [p \in PeerIds |-> 0]
  /\ mutex_ = [p \in PeerIds |-> Free]
  /\ global_result_ = [p \in PeerIds |-> 0]
  /\ reported = [p \in PeerIds |-> FALSE]
  /\ wpc = [p \in PeerIds |-> [t \in ThreadIds |-> "NotStarted"]]
  /\ work = [p \in PeerIds |-> [t \in ThreadIds |-> << >>]]
  /\ wi = [p \in PeerIds |-> [t \in ThreadIds |-> 0]]
  /\ seen = [p \in PeerIds |-> [t \in ThreadIds |-> 0]]
  /\ acc = [p \in PeerIds |-> [t \in ThreadIds |-> 0]]
  /\ returns = << >>
  /\ solves = [r \in 1 .. MaxRoots |-> 0]
  /\ merged = [r \in 1 .. MaxRoots |-> 0]

\* A RectangleTree constructed (lines 24-53) from a matrix without columns:
\* the loop of line 50 has made no call and the root is an empty leaf.
InitTree ==
  /\ NoSolver
  /\ NoKnn
  /\ NoFix
  /\ maxLeafSize \in 2 .. MaxLeafSizeParam
  /\ minLeafSize \in 1 .. (maxLeafSize \div 2)
  /\ maxNumChildren \in 2 .. MaxFanout
  /\ minNumChildren = 0
  /\ nodes = [n \in NodeIds |-> IF n = RootId THEN ChildNode(NULL) ELSE Destroyed]
  /\ ndebug \in BOOLEAN
  /\ aborted = FALSE
  /\ last = NoCall
  /\ data = << >>
  /\ firstDataIndex = 0
  /\ cpc = "Done"
  /\ ci = 0
  /\ inserts = 0

NextTree ==
  \/ \E point \in Coords : InsertPoint(point)
  \/ \E n \in NodeIds : SplitNode(n)

SpecTree == InitTree /\ [][NextTree]_vars

\* ------------------------------------------------- construction and the API
\* RectangleTree::begin: 0 in every node (lines 36 and 66).
begin == 0

\* The matrices the constructor is handed: up to MaxCols columns.
Matrices == UNION {[1 .. k -> Coords] : k \in 0 .. MaxCols}

\* Lines 24-47 with the loop of line 50 started at column 0.
RectangleTreeBeginAtColumnZero ==
  /\ cpc = "Begin"
  /\ nodes' = [nodes EXCEPT ![RootId] = ChildNode(NULL)]
  /\ ci' = 0
  /\ cpc' = "Loop"
  /\ last' = [NoCall EXCEPT !.op = "RectangleTree", !.node = RootId]
  /\ UNCHANGED <<solverVars, knnVars, maxLeafSize, minLeafSize, maxNumChildren,
                 minNumChildren, ndebug, aborted, data, firstDataIndex, inserts>>

\* RectangleTree(data, ...), lines 24-47: the members are initialised, the
\* root is an empty leaf and the loop is about to start at firstDataIndex.
RectangleTreeBegin ==
  /\ cpc = "Begin"
  /\ nodes' = [nodes EXCEPT ![RootId] = ChildNode(NULL)]
  /\ ci' = firstDataIndex
  /\ cpc' = "Loop"
  /\ last' = [NoCall EXCEPT !.op = "RectangleTree", !.node = RootId]
  /\ UNCHANGED <<solverVars, knnVars, maxLeafSize, minLeafSize, maxNumChildren,
                 minNumChildren, ndebug, aborted, data, firstDataIndex, inserts>>

\* lines 50-52: one test of the loop, and root->InsertPoint(data.col(i))
\* when it holds; the constructor returns when it fails.
RectangleTreeLoop ==
  /\ cpc = "Loop"
  /\ IF ci < Len(data)
       THEN /\ nodes' \in InsertPointAt(nodes, RootId, data[ci + 1])
            /\ ci' = ci + 1
            /\ cpc' = cpc
       ELSE /\ cpc' = "Done"
            /\ UNCHANGED <<nodes, ci>>
  /\ UNCHANGED <<solverVars, knnVars, maxLeafSize, minLeafSize, maxNumChildren,
                 minNumChildren, ndebug, aborted, last, data, firstDataIndex,
                 inserts>>

\* softDelete called on node n by a user of the tree, lines 105-116.
SoftDelete(n) ==
  /\ ~aborted
  /\ cpc = "Done"
  /\ nodes[n].alive
  /\ ~Dangling(nodes)
  /\ nodes' = softDelete(nodes, n)
  /\ last' = [NoCall EXCEPT !.op = "softDelete", !.node = n]
  /\ UNCHANGED <<solverVars, knnVars, maxLeafSize, minLeafSize, maxNumChildren,
                 minNumChildren, ndebug, aborted, ctorVars, inserts>>

\* End called on node n, lines 322-327. With children the test of line 324
\* holds and begin + count of the node itself is returned. Without children
\* line 326 reads children[numChildren - 1] with numChildren = 0, outside the
\* list, and calls End through what it read: the process may be ended by
\* the fault or the call may return any value.
End(n) ==
  /\ ~aborted
  /\ cpc = "Done"
  /\ nodes[n].alive
  /\ ~Dangling(nodes)
  /\ IF nodes[n].numChildren # 0
       THEN /\ aborted' = aborted
            /\ last' = [NoCall EXCEPT !.op = "End", !.node = n,
                                      !.ret = begin + nodes[n].count]
       ELSE \/ /\ aborted' = TRUE
               /\ last' = [NoCall EXCEPT !.op = "End", !.node = n]
            \/ /\ aborted' = aborted
               /\ \E v \in 0 .. MaxPoints :
                    last' = [NoCall EXCEPT !.op = "End", !.node = n, !.ret = v]
  /\ UNCHANGED <<solverVars, knnVars, maxLeafSize, minLeafSize, maxNumChildren,
                 minNumChildren, nodes, ndebug, ctorVars, inserts>>

\* A program about to construct a RectangleTree from a matrix. None of its
\* calls reaches an assertion, and the build is one without NDEBUG.
InitBuild ==
  /\ NoSolver
  /\ NoKnn
  /\ NoFix
  /\ maxLeafSize \in 2 .. MaxLeafSizeParam
  /\ minLeafSize \in 1 .. (maxLeafSize \div 2)
  /\ maxNumChildren \in 2 .. MaxFanout
  /\ minNumChildren = 0
  /\ nodes = [n \in NodeIds |-> Destroyed]
  /\ ndebug = FALSE
  /\ aborted = FALSE
  /\ last = NoCall
  /\ data \in Matrices
  /\ firstDataIndex \in 0 .. MaxCols
  /\ cpc = "Begin"
  /\ ci = 0
  /\ inserts = 0

NextBuild ==
  \/ RectangleTreeBegin
  \/ RectangleTreeLoop
  \/ \E point \in Coords : InsertPoint(point)
  \/ \E n \in NodeIds : SoftDelete(n)

SpecBuild == InitBuild /\ [][NextBuild]_vars

\* A constructed tree under InsertPoint and End calls.
NextEnd ==
  \/ \E point \in Coords : InsertPoint(point)
  \/ \E n \in NodeIds : End(n)

SpecEnd == InitTree /\ [][NextEnd]_vars

\* ================================================================ StatFixer
\* What no step of the StatFixer changes.
notFixVars ==
  <<runner, n_peers, n_threads_param, n_grains_param, n_roots, treeVars, knnVars,
    rpcVars, queueVars, mainVars, workerVars, sharedVars, histVars>>

\* The statistic of a node: the sum of what was accumulated into it and the
\* number of times it was post-processed.
StatReset(st) == [sum |-> 0, post |-> 0]
StatAccumulatePoint(st, point) == [st EXCEPT !.sum = @ + point]
StatAccumulate(st, child_stat) == [st EXCEPT !.sum = @ + child_stat.sum]
StatPostprocess(st) == [st EXCEPT !.post = @ + 1]

\* What the statistic of a node holds before Fix: the leavings of the tree
\* builder.
StaleStat == [sum |-> 1, post |-> 1]

\* A write to node->stat() through the CacheWrite of line 50.
WriteStat(n, st) == [nodes_ EXCEPT ![n].stat = st]

\* The kd-trees with the given number of leaves whose root has index idx and
\* whose first point is first: each as the array of its nodes, with its
\* number of nodes and of points. An internal node has two children and
\* the points of its subtree; a leaf owns 1 .. MaxLeafCount points. The
\* bound of a node is the interval of its points.
RECURSIVE KdTrees(_, _, _)
KdTrees(idx, first, leaves) ==
  IF leaves = 1
    THEN {[arr |-> idx :> [is_leaf |-> TRUE, child |-> << >>, begin |-> first,
                            count |-> cnt, bound |-> <<first, first + cnt - 1>>,
                            stat |-> StaleStat],
           size |-> 1, points |-> cnt] : cnt \in 1 .. MaxLeafCount}
    ELSE UNION {UNION {
           {[arr |-> (idx :> [is_leaf |-> FALSE,
                              child |-> <<idx + 1, idx + 1 + l.size>>,
                              begin |-> first,
                              count |-> l.points + r.points,
                              bound |-> <<first, first + l.points + r.points - 1>>,
                              stat |-> StaleStat]) @@ l.arr @@ r.arr,
             size |-> 1 + l.size + r.size,
             points |-> l.points + r.points]
            : r \in KdTrees(idx + 1 + l.size, first + l.points, leaves - a)}
           : l \in KdTrees(idx + 1, first, a)}
         : a \in 1 .. (leaves - 1)}

\* A call recorded in stat_ops.
\* For an Accumulate of a child, len is the number of calls that had been
\* made on the statistic of the child when it was read.
Op(name, arg, len) == [op |-> name, arg |-> arg, len |-> len]
Note(n, o) == [stat_ops EXCEPT ![n] = Append(@, o)]

\* A FixRecursively_ call: its node, its position, and its loop indices.
Frame(node_index) == [node_index |-> node_index, pc |-> "Reset", k |-> 0, i |-> 0]
Top == stack[Len(stack)]
SetTop(f) == [stack EXCEPT ![Len(stack)] = f]
Running(position) == fpc = "FixRecursively" /\ stack # << >> /\ Top.pc = position

\* Fix and InitFix up to the call FixRecursively_(0), lines 18-44.
InitFix ==
  /\ fpc = "Fix"
  /\ fpc' = "FixRecursively"
  /\ stack' = <<Frame(0)>>
  /\ UNCHANGED <<notFixVars, nodes_, points_, stat_ops>>

\* Lines 50-54 with the node's count reset along with its statistic.
FixResetWithCount ==
  /\ Running("Reset")
  /\ nodes_' = [WriteStat(Top.node_index, StatReset(nodes_[Top.node_index].stat))
                  EXCEPT ![Top.node_index].count = 0]
  /\ stat_ops' = Note(Top.node_index, Op("Reset", 0, 0))
  /\ stack' = SetTop([Top EXCEPT !.pc =
                 IF nodes_[Top.node_index].is_leaf THEN "Points" ELSE "Children"])
  /\ UNCHANGED <<notFixVars, points_, fpc>>

\* lines 50-54: node->stat().Reset, then the test of is_leaf.
FixReset ==
  /\ Running("Reset")
  /\ nodes_' = WriteStat(Top.node_index, StatReset(nodes_[Top.node_index].stat))
  /\ stat_ops' = Note(Top.node_index, Op("Reset", 0, 0))
  /\ stack' = SetTop([Top EXCEPT !.pc =
                 IF nodes_[Top.node_index].is_leaf THEN "Points" ELSE "Children"])
  /\ UNCHANGED <<notFixVars, points_, fpc>>

\* Lines 55-58 without the call of line 58: the child is not fixed.
FixChildNotFixed ==
  /\ Running("Children")
  /\ stack' = SetTop([Top EXCEPT !.pc = IF Top.k < 2 THEN "Accumulate"
                                        ELSE "PostprocessInner"])
  /\ UNCHANGED <<notFixVars, nodes_, points_, fpc, stat_ops>>

\* Lines 55-58 with child(0) in place of child(k) in line 56.
FixChildAlwaysFirst ==
  /\ Running("Children")
  /\ IF Top.k < 2
       THEN stack' = Append(SetTop([Top EXCEPT !.pc = "Accumulate"]),
                            Frame(nodes_[Top.node_index].child[1]))
       ELSE stack' = SetTop([Top EXCEPT !.pc = "PostprocessInner"])
  /\ UNCHANGED <<notFixVars, nodes_, points_, fpc, stat_ops>>

\* lines 55-58: the test of the loop over the two children, and the call
\* FixRecursively_(node->child(k)) when it holds.
FixChild ==
  /\ Running("Children")
  /\ IF Top.k < 2
       THEN stack' = Append(SetTop([Top EXCEPT !.pc = "Accumulate"]),
                            Frame(nodes_[Top.node_index].child[Top.k + 1]))
       ELSE stack' = SetTop([Top EXCEPT !.pc = "PostprocessInner"])
  /\ UNCHANGED <<notFixVars, nodes_, points_, fpc, stat_ops>>

\* lines 60-63: the statistic of the child is read and accumulated; k++.
FixAccumulateChild ==
  /\ Running("Accumulate")
  /\ LET c == nodes_[Top.node_index].child[Top.k + 1]
     IN /\ nodes_' = WriteStat(Top.node_index,
                         StatAccumulate(nodes_[Top.node_index].stat, nodes_[c].stat))
        /\ stat_ops' = Note(Top.node_index,
                            Op("AccumulateChild", c, Len(stat_ops[c])))
  /\ stack' = SetTop([Top EXCEPT !.pc = "Children", !.k = @ + 1])
  /\ UNCHANGED <<notFixVars, points_, fpc>>

\* lines 64-65: Postprocess at the end of the branch of internal nodes.
FixPostprocessInner ==
  /\ Running("PostprocessInner")
  /\ nodes_' = WriteStat(Top.node_index, StatPostprocess(nodes_[Top.node_index].stat))
  /\ stat_ops' = Note(Top.node_index, Op("Postprocess", 0, 0))
  /\ stack' = SetTop([Top EXCEPT !.pc = "Postprocess"])
  /\ UNCHANGED <<notFixVars, points_, fpc>>

\* lines 67-71: one test of the loop over the points of a leaf, and the
\* Accumulate of the point at begin + i when it holds.
FixAccumulatePoint ==
  /\ Running("Points")
  /\ IF Top.i < nodes_[Top.node_index].count
       THEN /\ nodes_' = WriteStat(Top.node_index,
                   StatAccumulatePoint(nodes_[Top.node_index].stat,
                     points_[nodes_[Top.node_index].begin + Top.i]))
            /\ stat_ops' = Note(Top.node_index,
                   Op("AccumulatePoint", nodes_[Top.node_index].begin + Top.i, 0))
            /\ stack' = SetTop([Top EXCEPT !.i = @ + 1])
       ELSE /\ nodes_' = nodes_
            /\ stat_ops' = stat_ops
            /\ stack' = SetTop([Top EXCEPT !.pc = "Postprocess"])
  /\ UNCHANGED <<notFixVars, points_, fpc>>

\* lines 74-75: Postprocess, for leaves and internal nodes alike, and return.
FixPostprocess ==
  /\ Running("Postprocess")
  /\ nodes_' = WriteStat(Top.node_index, StatPostprocess(nodes_[Top.node_index].stat))
  /\ stat_ops' = Note(Top.node_index, Op("Postprocess", 0, 0))
  /\ stack' = SubSeq(stack, 1, Len(stack) - 1)
  /\ UNCHANGED <<notFixVars, points_, fpc>>

\* InitFix after FixRecursively_(0) has returned, lines 45-46.
InitFixFlush ==
  /\ fpc = "FixRecursively"
  /\ stack = << >>
  /\ fpc' = "Done"
  /\ UNCHANGED <<notFixVars, nodes_, points_, stack, stat_ops>>

\* A program about to call StatFixer::Fix on a kd-tree.
InitFixer ==
  /\ NoSolver
  /\ NoTree
  /\ NoKnn
  /\ \E leaves \in 1 .. MaxFixLeaves :
       \E t \in KdTrees(0, 0, leaves) :
         /\ nodes_ = t.arr
         /\ points_ = [i \in 0 .. (t.points - 1) |-> i + 1]
         /\ stat_ops = [n \in DOMAIN t.arr |-> << >>]
  /\ fpc = "Fix"
  /\ stack = << >>

NextFix ==
  \/ InitFix
  \/ FixReset
  \/ FixChild
  \/ FixAccumulateChild
  \/ FixPostprocessInner
  \/ FixAccumulatePoint
  \/ FixPostprocess
  \/ InitFixFlush

SpecFix == InitFixer /\ [][NextFix]_vars

\* Fix runs in one thread that is never stopped for good: while a step of
\* it can be taken, one eventually is.
LiveSpecFix == InitFixer /\ [][NextFix]_vars /\ WF_vars(NextFix)

\* =================================================================== AllkNN
\* Points are numbered from 1 here; index i stands for column i - 1.
KnnCoords == 0 .. MaxKnnCoord

\* The squared Euclidean distance of two points on a line.
KnnDist(a, b) == (a - b) * (a - b)

\* The value an unfilled distance entry holds (DBL_MAX): above every distance.
KnnInfinity == (MaxKnnCoord + 1) * (MaxKnnCoord + 1)

\* Points per leaf of the trees the tree modes build.
TreeLeafSize == 1

\* The index of a query point is its own index when the dataset is both.
Indices(pts) == [i \in 1 .. Len(pts) |-> i]

\* ------------------------------------------------------------ result lists
\* A query point's list: pairs << distance, index >> in ascending distance;
\* a new pair goes before the first pair of greater distance, so that among
\* equal distances the pair seen first stays first. At most knns pairs stay.
InsertNeighbor(list, d, i) ==
  LET pos == CHOOSE p \in 1 .. (Len(list) + 1) :
               /\ p = Len(list) + 1 \/ d < list[p][1]
               /\ \A o \in 1 .. (p - 1) : ~(d < list[o][1])
      ins == SubSeq(list, 1, pos - 1) \o <<<<d, i>>>> \o SubSeq(list, pos, Len(list))
  IN IF Len(ins) > knns THEN SubSeq(ins, 1, knns) ELSE ins

\* The pruning threshold taken from the nearest neighbour found so far
\* instead of the k-th.
KthBestIsNearest(list) == IF list = << >> THEN KnnInfinity ELSE list[1][1]

\* The current k-th best distance of a list.
KthBest(list) == IF Len(list) < knns THEN KnnInfinity ELSE list[knns][1]

\* The base case without the test for the query point itself.
RECURSIVE BaseCaseRowWithSelf(_, _, _)
BaseCaseRowWithSelf(list, q, rs) ==
  IF rs = << >> THEN list
  ELSE BaseCaseRowWithSelf(
         InsertNeighbor(list, KnnDist(queries[q], references[Head(rs)]), Head(rs)),
         q, Tail(rs))

\* The base case for one query point q against the reference points rs, in
\* their order; a point is not its own neighbour.
RECURSIVE BaseCaseRow(_, _, _)
BaseCaseRow(list, q, rs) ==
  IF rs = << >> THEN list
  ELSE BaseCaseRow(
         IF monochromatic /\ q = Head(rs)
           THEN list
           ELSE InsertNeighbor(list, KnnDist(queries[q], references[Head(rs)]),
                               Head(rs)),
         q, Tail(rs))

\* The base case for two leaves: every query point of qs against rs.
RECURSIVE BaseCase(_, _, _)
BaseCase(res, qs, rs) ==
  IF qs = << >> THEN res
  ELSE BaseCase([res EXCEPT !.lists[Head(qs)] = BaseCaseRow(@, Head(qs), rs)],
                Tail(qs), rs)

\* ------------------------------------------------------- the midpoint tree
PointsAt(coords, idxs) == [i \in 1 .. Len(idxs) |-> coords[idxs[i]]]

\* The midpoint bulk builder over the points idxs of coords: a range wider
\* than a leaf is split at the midpoint of its bound.
RECURSIVE BuildTree(_, _)
BuildTree(coords, idxs) ==
  LET b == HullOfPoints(PointsAt(coords, idxs))
      mid == (b[1] + b[2]) \div 2
      Low(i) == coords[i] <= mid
      High(i) == coords[i] > mid
  IN IF Len(idxs) <= TreeLeafSize \/ b[1] = b[2]
       THEN [leaf |-> TRUE, points |-> idxs, bound |-> b]
       ELSE [leaf |-> FALSE, points |-> idxs, bound |-> b,
             left |-> BuildTree(coords, SelectSeq(idxs, Low)),
             right |-> BuildTree(coords, SelectSeq(idxs, High))]

\* Bound.minDistance(point): never more than the distance to any point inside.
MinDistPoint(x, b) ==
  IF x < b[1] THEN KnnDist(b[1], x)
  ELSE IF x > b[2] THEN KnnDist(x, b[2])
  ELSE 0

\* Bound.minDistance(bound)
MinDistBound(a, b) ==
  IF a[2] < b[1] THEN KnnDist(b[1], a[2])
  ELSE IF b[2] < a[1] THEN KnnDist(a[1], b[2])
  ELSE 0

\* The largest k-th best distance among the query points qs.
RECURSIVE MaxKthBest(_, _)
MaxKthBest(res, qs) ==
  IF qs = << >> THEN 0
  ELSE Max(KthBest(res.lists[Head(qs)]), MaxKthBest(res, Tail(qs)))

Pruned(res) == [res EXCEPT !.pruned = @ + 1]

\* ----------------------------------------------------------- the traversals
\* Single-tree mode: query point q against reference node r. A node whose
\* bound is farther than q's k-th best distance is pruned; of two children
\* the closer is visited first.
RECURSIVE SingleTree(_, _, _)
SingleTree(res, q, r) ==
  IF MinDistPoint(queries[q], r.bound) > KthBest(res.lists[q])
    THEN Pruned(res)
  ELSE IF r.leaf
    THEN BaseCase(res, <<q>>, r.points)
  ELSE IF MinDistPoint(queries[q], r.left.bound)
            <= MinDistPoint(queries[q], r.right.bound)
    THEN SingleTree(SingleTree(res, q, r.left), q, r.right)
    ELSE SingleTree(SingleTree(res, q, r.right), q, r.left)

RECURSIVE SingleTreeAll(_, _, _)
SingleTreeAll(res, qs, r) ==
  IF qs = << >> THEN res
  ELSE SingleTreeAll(SingleTree(res, Head(qs), r), Tail(qs), r)

\* Dual-tree mode: query node q against reference node r. The pair is pruned
\* when the bounds are farther apart than the k-th best distance of every
\* query point below q; two leaves are the base case; otherwise the internal
\* node, or of two internal nodes the wider one, is expanded, the reference
\* children closer first.
RECURSIVE DualTree(_, _, _)
DualTree(res, q, r) ==
  IF MinDistBound(q.bound, r.bound) > MaxKthBest(res, q.points)
    THEN Pruned(res)
  ELSE IF q.leaf /\ r.leaf
    THEN BaseCase(res, q.points, r.points)
  ELSE IF q.leaf \/ (~r.leaf /\ BoundWidth(r.bound) > BoundWidth(q.bound))
    THEN IF MinDistBound(q.bound, r.left.bound) <= MinDistBound(q.bound, r.right.bound)
           THEN DualTree(DualTree(res, q, r.left), q, r.right)
           ELSE DualTree(DualTree(res, q, r.right), q, r.left)
  ELSE DualTree(DualTree(res, q.left, r), q.right, r)

\* The traversal of one mode over the whole input. Naive mode: both sides
\* are single leaves of all points, in index order.
EmptyResult == [lists |-> [q \in 1 .. Len(queries) |-> << >>], pruned |-> 0]

Traverse(mode) ==
  LET rtree == BuildTree(references, Indices(references))
      qtree == IF monochromatic THEN rtree ELSE BuildTree(queries, Indices(queries))
  IN CASE mode = "naive" ->
            BaseCase(EmptyResult, Indices(queries), Indices(references))
       [] mode = "single" ->
            SingleTreeAll(EmptyResult, Indices(queries), rtree)
       [] mode = "dual" ->
            DualTree(EmptyResult, qtree, rtree)

\* The modes the test loop has run before it runs the given one (lines
\* 44-60): dual-tree, then single-tree, then naive.
RunBefore(mode) ==
  CASE mode = "dual" -> {}
    [] mode = "single" -> {"dual"}
    [] mode = "naive" -> {"dual", "single"}

\* AllkNN::ComputeNeighbors(resulting_neighbors, distances) of the object
\* constructed in the given mode: column j of the two tables is the list of
\* query point j.
ComputeNeighbors(mode) ==
  /\ references # << >>
  /\ neighbors[mode] = << >>
  /\ \A o \in RunBefore(mode) : neighbors[o] # << >>
  /\ LET res == Traverse(mode)
     IN /\ neighbors' = [neighbors EXCEPT ![mode] =
             [j \in 1 .. Len(queries) |->
                [i \in 1 .. Len(res.lists[j]) |-> res.lists[j][i][2]]]]
        /\ distances' = [distances EXCEPT ![mode] =
             [j \in 1 .. Len(queries) |->
                [i \in 1 .. Len(res.lists[j]) |-> res.lists[j][i][1]]]]
        /\ pruned' = [pruned EXCEPT ![mode] = res.pruned]
  /\ UNCHANGED <<solverVars, treeVars, references, queries, monochromatic, knns>>

PointSets(n) == UNION {[1 .. m -> KnnCoords] : m \in 1 .. n}

\* allknn_test.cc: one dataset (or one query point and a reference dataset)
\* and one k, handed to an AllkNN object per mode (lines 44-60, 336-341,
\* 380-385).
InitKnn ==
  /\ NoSolver
  /\ NoTree
  /\ NoFix
  /\ references \in PointSets(MaxKnnPoints)
  /\ monochromatic \in BOOLEAN
  /\ queries \in IF monochromatic THEN {references} ELSE PointSets(1)
  /\ knns \in 1 .. (Len(references) - (IF monochromatic THEN 1 ELSE 0))
  /\ neighbors = [m \in Modes |-> << >>]
  /\ distances = [m \in Modes |-> << >>]
  /\ pruned = [m \in Modes |-> 0]

NextKnn == \E mode \in Modes : ComputeNeighbors(mode)

SpecKnn == InitKnn /\ [][NextKnn]_vars

\* =================================================================== claims
Returned == dpc[MASTER_RANK] = "Returned"

\* The (call, position) pairs of every query root handed out by GetWork.
Handed == UNION {{<<i, a>> : a \in 1 .. Len(returns[i])} : i \in 1 .. Len(returns)}
HandedRoot(h) == returns[h[1]][h[2]]
TimesHanded(r) == Cardinality({h \in Handed : HandedRoot(h) = r})

WorkersOf(p) == 1 .. n_threads[p]
InMerge(p, t) == wpc[p][t] \in {"Accumulate", "AccumulateWrite"}

RECURSIVE SumPartial(_)
SumPartial(n) == IF n = 0 THEN 0 ELSE Accumulate(SumPartial(n - 1), PartialResult(n))

RECURSIVE Writers(_, _)
Writers(q, r) ==
  IF r = 0 THEN 0
  ELSE (IF q \in QRange(r) THEN solves[r] ELSE 0) + Writers(q, r - 1)

\* C1: no query-root index is returned by two GetWork calls of a run (nor
\* twice by one call), whatever the number of threads and the interleaving.
C1_GrainClaimedAtMostOnce ==
  \A g \in Handed, h \in Handed : HandedRoot(g) = HandedRoot(h) => g = h

\* C1 witness: two workers hold a non-empty grain at the same time.
C1_Witness ==
  \E t1 \in ThreadIds, t2 \in ThreadIds :
    /\ t1 # t2
    /\ work[MASTER_RANK][t1] # << >>
    /\ work[MASTER_RANK][t2] # << >>

\* C2: when the run is over, the non-empty GetWork results together hold
\* every top-level query node exactly once.
C2_GrainsPartitionRoots ==
  Returned =>
    /\ \A r \in Roots : TimesHanded(r) = 1
    /\ \A h \in Handed : HandedRoot(h) \in Roots

\* C2 witness: a finished run whose queue held several grains, one of them
\* with several roots.
C2_Witness ==
  /\ Returned
  /\ Len(grains) >= 2
  /\ \E k \in 1 .. Len(grains) : Len(grains[k]) >= 2

AllSolved ==
  /\ claim = Len(grains)
  /\ \A r \in Roots : solves[r] >= 1 /\ merged[r] >= 1
  /\ \A t \in WorkersOf(MASTER_RANK) : wpc[MASTER_RANK][t] = "Joined"

\* C3: every run of InitSolve returns (so every WorkerTask::Run loop has
\* ended), and when it has returned every grain has been claimed and every
\* query root of every grain has been solved.
C3_TerminatesWithAllGrainsDone == <>Returned /\ [](Returned => AllSolved)

\* C3 witness: a finished run of two threads over several grains.
C3_Witness ==
  /\ Returned
  /\ n_threads[MASTER_RANK] >= 2
  /\ Len(grains) >= 2
  /\ AllSolved

\* C4: once a GetWork call has returned an empty list, every later GetWork
\* call of the run returns an empty list.
C4_ExhaustionIsPermanent ==
  \A i \in 1 .. Len(returns), j \in 1 .. Len(returns) :
    (i < j /\ returns[i] = << >>) => returns[j] = << >>

\* C4 witness: two workers have both been told that the queue is exhausted.
C4_Witness ==
  \E i \in 1 .. Len(returns), j \in 1 .. Len(returns) :
    i < j /\ returns[i] = << >> /\ returns[j] = << >> /\ Len(grains) >= 1

\* C5: at most one worker at a time is inside global_result_.Accumulate.
C5_MergeIsExclusive ==
  \A p \in Peers : Cardinality({t \in ThreadIds : InMerge(p, t)}) <= 1

\* C5 witness: one worker is inside Accumulate while another waits at the
\* Lock of line 115.
C5_Witness ==
  \E t1 \in ThreadIds, t2 \in ThreadIds :
    /\ wpc[MASTER_RANK][t1] = "AccumulateWrite"
    /\ wpc[MASTER_RANK][t2] = "LockResult"

ClaimSection == {"GetWork", "GetWorkTake", "UnlockQueue"}
SubmoduleSection == {"Submodule"}
MergeSection == {"Accumulate", "AccumulateWrite", "UnlockResult"}

\* C6 as stated: a worker holds the mutex only inside the GetWork section or
\* the Accumulate section of WorkerTask::Run.
C6_LockOnlyForClaimAndMerge ==
  \A p \in Peers, t \in ThreadIds :
    Holds(p, t) => wpc[p][t] \in ClaimSection \cup MergeSection

\* C6 amended: a worker holds the mutex only inside the GetWork section, the
\* fx_submodule section of lines 105-108 or the Accumulate section; at every
\* other step, the traversal solver.InitSolve included, it holds no lock.
C6_LockOnlyInThreeSections ==
  \A p \in Peers, t \in ThreadIds :
    Holds(p, t) => wpc[p][t] \in ClaimSection \cup SubmoduleSection \cup MergeSection

\* C6 witness: a worker is inside its traversal while another worker holds
\* the mutex.
C6_Witness ==
  \E t1 \in ThreadIds, t2 \in ThreadIds :
    /\ wpc[MASTER_RANK][t1] = "Solving"
    /\ t1 # t2
    /\ Holds(MASTER_RANK, t2)

\* C7: the final global_result_ does not depend on the interleaving or on
\* which worker got which grain: it is the accumulation of one partial result
\* per top-level query node.
C7_FinalResultIsOrderIndependent ==
  Returned => global_result_[MASTER_RANK] = SumPartial(n_roots)

\* C7 witness: a finished run of two threads over several query roots, with
\* every partial result merged.
C7_Witness ==
  /\ Returned
  /\ n_threads[MASTER_RANK] >= 2
  /\ n_roots >= 2
  /\ global_result_[MASTER_RANK] = SumPartial(n_roots)

\* C8: no traversal is started twice for a query root, and no query point's
\* QueryResult entry lies in the range of two started traversals.
C8_OneTraversalPerQueryRange ==
  /\ \A r \in Roots : solves[r] <= 1
  /\ \A q \in UNION {QRange(r) : r \in Roots} : Writers(q, n_roots) <= 1

\* C8 witness: two traversals run at the same time.
C8_Witness ==
  \E t1 \in ThreadIds, t2 \in ThreadIds :
    /\ t1 # t2
    /\ wpc[MASTER_RANK][t1] = "Solving"
    /\ wpc[MASTER_RANK][t2] = "Solving"

DataArrays == {"data_points_", "data_nodes_", "q_results_"}
ComputeStarted(p) ==
  dpc[p] \in {"InitSolve", "StartThreads", "WaitStop", "Report", "Barrier2",
              "FlushRead", "Barrier3", "Done", "Exited"}
ComputeFinished(p) ==
  /\ reported[p]
  /\ \A t \in WorkersOf(p) : wpc[p][t] = "Joined"

\* C9: no peer has started the compute phase unless every peer has completed
\* its three data flushes and has reached barrier BARRIER_CHANNEL+1.
C9_NoComputeBeforeAllFlushed ==
  \A p \in Peers : ComputeStarted(p) =>
    \A q \in Peers : DataArrays \subseteq flushed[q]
                     /\ q \in barrier[BARRIER_CHANNEL + 1]

\* C9 witness: one peer computes while another has not yet left barrier
\* BARRIER_CHANNEL+1.
C9_Witness ==
  \E p \in Peers, q \in Peers :
    ComputeStarted(p) /\ dpc[q] = "Barrier1" /\ wpc[p][1] = "Solving"

\* C10: no peer has started the result flush unless every peer has returned
\* from InitSolve, with all its worker threads joined, and has reached
\* barrier BARRIER_CHANNEL+2.
C10_NoResultFlushBeforeAllComputed ==
  \A p \in Peers : "q_results_read" \in flushed[p] =>
    \A q \in Peers : ComputeFinished(q) /\ q \in barrier[BARRIER_CHANNEL + 2]

\* C10 witness: one peer has flushed its results while another has not yet
\* left barrier BARRIER_CHANNEL+2.
C10_Witness ==
  \E p \in Peers, q \in Peers :
    "q_results_read" \in flushed[p] /\ dpc[q] = "Barrier2"

Workers == {w \in PeerIds \X ThreadIds : w[1] \in Peers}
HasConfig(p) ==
  dpc[p] \in {"GetParam", "RemoteQueue", "Barrier0", "FlushPoints", "FlushNodes",
              "FlushCreate", "Barrier1", "Compute"} \/ ComputeStarted(p)
HasParam(p) ==
  dpc[p] \in {"RemoteQueue", "Barrier0", "FlushPoints", "FlushNodes",
              "FlushCreate", "Barrier1", "Compute"} \/ ComputeStarted(p)

\* C11: in the distributed runner no query-root index is handed out twice,
\* whether GetWork is called by the master's threads or by remote workers.
C11_GrainClaimedOnceAcrossPeers ==
  /\ \A g \in Handed, h \in Handed : HandedRoot(g) = HandedRoot(h) => g = h
  /\ \A v \in Workers, w \in Workers :
       (v # w /\ work[v[1]][v[2]] # << >> /\ work[w[1]][w[2]] # << >>)
         => \A a \in 1 .. Len(work[v[1]][v[2]]), b \in 1 .. Len(work[w[1]][w[2]]) :
              work[v[1]][v[2]][a] # work[w[1]][w[2]][b]

\* C11 witness: a thread of the master and a thread of a remote worker hold a
\* grain at the same time.
C11_Witness ==
  \E t \in ThreadIds, w \in Workers :
    /\ w[1] # MASTER_RANK
    /\ work[MASTER_RANK][t] # << >>
    /\ work[w[1]][w[2]] # << >>

DoitTail ==
  <<"Barrier0", "FlushPoints", "FlushNodes", "FlushCreate", "Barrier1",
    "Compute", "InitSolve", "StartThreads", "WaitStop", "Report", "Barrier2",
    "FlushRead", "Barrier3", "Done", "Exited">>
TailIndex(pos) ==
  IF \E i \in 1 .. Len(DoitTail) : DoitTail[i] = pos
    THEN CHOOSE i \in 1 .. Len(DoitTail) : DoitTail[i] = pos
    ELSE 0
BarrierPosition(k) == <<"Barrier0", "Barrier1", "Barrier2", "Barrier3">>[k + 1]
PassedBarrier(p, k) == TailIndex(dpc[p]) > TailIndex(BarrierPosition(k))
ReachedDone(p) == dpc[p] \in {"Done", "Exited"}
BarrierNumbers == 0 .. 3

\* C13: while some peer has not arrived at barrier BARRIER_CHANNEL+k, no
\* peer is past that barrier and no peer has reached rpc::Done; and a peer
\* waiting at a barrier that is not complete keeps waiting, there being no
\* step that takes it anywhere else.
C13_BarrierWaitsForEveryPeer ==
  /\ [](\A k \in BarrierNumbers, q \in Peers :
          q \notin barrier[BARRIER_CHANNEL + k]
            => \A p \in Peers : ~PassedBarrier(p, k) /\ ~ReachedDone(p))
  /\ [][\A k \in BarrierNumbers, p \in Peers :
          (dpc[p] = BarrierPosition(k) /\ barrier[BARRIER_CHANNEL + k] # Peers)
            => dpc'[p] = dpc[p]]_vars

\* C13 witness: one peer waits inside a barrier at which another peer has
\* not arrived.
C13_Witness ==
  \E k \in BarrierNumbers, p \in Peers, q \in Peers :
    /\ dpc[p] = BarrierPosition(k)
    /\ p \in barrier[BARRIER_CHANNEL + k]
    /\ q \notin barrier[BARRIER_CHANNEL + k]
    /\ k = 3

SolveCalled == runner = "local" /\ dpc[MASTER_RANK] # "Solve"
SetupMasterDone == runner = "rpc" /\ work_queue_[MASTER_RANK] # "none"

\* C14 as stated: with no n_grains parameter the local solver asks for
\* n_threads * 3 grains for every n_threads >= 1, and the distributed runner
\* for n_threads * n_peers * 3.
C14_DefaultGrainsThreePerThread ==
  n_grains_param = << >> =>
    /\ SolveCalled => n_grains = n_threads_param * 3
    /\ SetupMasterDone => n_grains = n_threads_param * n_peers * 3

\* C14 amended: with no n_grains parameter the local solver asks for one
\* grain when n_threads = 1 and for n_threads * 3 grains when n_threads >= 2;
\* the distributed runner asks for n_threads * n_peers * 3; a supplied
\* n_grains parameter is used as it is by both.
C14_DefaultGrainsOneWhenSingleThread ==
  /\ n_grains_param = << >> =>
       /\ SolveCalled =>
            n_grains = (IF n_threads_param = 1 THEN 1 ELSE n_threads_param * 3)
       /\ SetupMasterDone => n_grains = n_threads_param * n_peers * 3
  /\ (n_grains_param # << >> /\ (SolveCalled \/ SetupMasterDone))
       => n_grains = n_grains_param[1]

\* C14 witness: Solve has run with one thread and no n_grains parameter and
\* asked for one grain.
C14_Witness ==
  /\ SolveCalled
  /\ n_grains_param = << >>
  /\ n_threads_param = 1
  /\ n_grains = 1

\* ------------------------------------------------------------ RectangleTree
IsLeaf(n) == nodes[n].alive /\ nodes[n].numChildren = 0
IsInternal(n) == nodes[n].alive /\ nodes[n].numChildren # 0

RECURSIVE SubtreePoints(_, _)
SubtreePoints(T, n) ==
  IF T[n].numChildren = 0
    THEN Range(T[n].dataset)
    ELSE UNION {SubtreePoints(T, c) : c \in Range(T[n].children)}

\* C17: whenever no call is running, every leaf of the tree holds at most
\* maxLeafSize points.
C17_LeafCountAtMostMaxLeafSize ==
  \A n \in NodeIds : IsLeaf(n) => nodes[n].count <= maxLeafSize

\* C17 witness: an InsertPoint call has returned after splitting a leaf, the
\* root now having children, and every point inserted is in the tree.
C17_Witness ==
  /\ last.op = "InsertPoint"
  /\ IsInternal(RootId)
  /\ NumDescendants(nodes, RootId) = MaxPoints

\* C18: the bound of every node of the tree contains every point stored in
\* the leaves of its subtree.
C18_BoundContainsSubtreePoints ==
  \A n \in NodeIds : nodes[n].alive =>
    \A x \in SubtreePoints(nodes, n) : BoundContains(nodes[n].bound, x)

\* C18 witness: after an insertion that descended from the root into a
\* child, a leaf below the root holds a point and has a narrower bound than
\* the root.
C18_Witness ==
  /\ last.op = "InsertPoint"
  /\ IsInternal(RootId)
  /\ \E n \in NodeIds :
       /\ IsLeaf(n)
       /\ nodes[n].parent # NULL
       /\ nodes[n].count >= 2
       /\ BoundWidth(nodes[n].bound) < BoundWidth(nodes[RootId].bound)

\* C19: a SplitNode call on a leaf with count < maxLeafSize changes no node
\* of the tree and does not end the process, whatever calls came before it.
C19_SplitNodeOnNonFullLeafIsNoOp ==
  [][\A n \in NodeIds :
       (last'.op = "SplitNode" /\ last'.node = n /\ IsLeaf(n)
          /\ nodes[n].count < maxLeafSize)
         => nodes' = nodes /\ aborted' = aborted]_vars

\* C19 witness: SplitNode has just been called on a leaf below the root that
\* holds points but is not full.
C19_Witness ==
  /\ last.op = "SplitNode"
  /\ IsLeaf(last.node)
  /\ nodes[last.node].parent # NULL
  /\ nodes[last.node].count >= 1
  /\ nodes[last.node].count < maxLeafSize
  /\ ~aborted

\* C20: a SplitNode call on a node that has children ends the process at the
\* assertion and leaves the tree as it was.
C20_SplitNodeOnInternalNodeAborts ==
  [][\A n \in NodeIds :
       (last'.op = "SplitNode" /\ last'.node = n /\ IsInternal(n))
         => aborted' /\ nodes' = nodes]_vars

\* ------------------------------------------------------------------- AllkNN
Computed(m) == neighbors[m] # << >>
AllComputed == \A m \in Modes : Computed(m)

\* The reference points that may be neighbours of query point j.
Candidates(j) ==
  {r \in 1 .. Len(references) : ~(monochromatic /\ r = j)}

\* No query point has two candidates at the same distance.
NoTies ==
  \A j \in 1 .. Len(queries) : \A r \in Candidates(j), o \in Candidates(j) :
    r # o => KnnDist(queries[j], references[r]) # KnnDist(queries[j], references[o])

C16_ColumnsSortedNearestNoSelf ==
  \A m \in Modes : Computed(m) =>
    \A j \in 1 .. Len(queries) :
      /\ Len(neighbors[m][j]) = knns
      /\ Len(distances[m][j]) = knns
      /\ \A i \in 1 .. knns :
           /\ neighbors[m][j][i] \in Candidates(j)
           /\ distances[m][j][i]
                = KnnDist(queries[j], references[neighbors[m][j][i]])
      /\ \A i \in 1 .. knns, o \in 1 .. knns :
           i < o => /\ neighbors[m][j][i] # neighbors[m][j][o]
                    /\ distances[m][j][i] <= distances[m][j][o]
      /\ \A r \in Candidates(j) \ Range(neighbors[m][j]) :
           KnnDist(queries[j], references[r]) >= distances[m][j][knns]

\* C16 witness: a single dataset in which a point has a twin at the same
\* place, two neighbours asked for, all modes run.
C16_Witness ==
  /\ AllComputed
  /\ monochromatic
  /\ knns = 2
  /\ \E j \in 1 .. Len(queries), r \in 1 .. Len(references) :
       r # j /\ references[r] = queries[j] /\ neighbors["dual"][j][1] = r

\* ------------------------------------------------------------------ C21
\* The RectangleTree constructor has returned and no call has followed.
Constructed == cpc = "Done" /\ last.op = "RectangleTree"

\* The columns the constructor's loop inserts: firstDataIndex .. n_cols - 1.
ColumnsToInsert == Max(Len(data) - firstDataIndex, 0)

\* C21: a construction from a matrix with no point to insert (zero columns,
\* or firstDataIndex >= n_cols) fails and yields no usable tree: when the
\* constructor has returned there is no live root object.
C21_EmptyDatasetYieldsNoTree ==
  (Constructed /\ firstDataIndex >= Len(data)) => ~nodes[RootId].alive

\* ------------------------------------------------------------------ C24
\* C24: softDelete destroys the node it is called on and nothing else: each
\* of its children, and every other node, is afterwards the live object it
\* was, with its points, its bound, its parent field and its own children.
C24_SoftDeleteLeavesChildrenAlive ==
  [][last'.op = "softDelete" =>
       /\ ~nodes'[last'.node].alive
       /\ \A k \in 1 .. nodes[last'.node].numChildren :
            /\ nodes'[nodes[last'.node].children[k]].alive
            /\ SubtreePoints(nodes', nodes[last'.node].children[k])
                 = SubtreePoints(nodes, nodes[last'.node].children[k])
       /\ \A m \in NodeIds \ {last'.node} : nodes'[m] = nodes[m]]_vars

\* softDelete was called on a node with children: they are alive and still
\* name the deleted node as their parent.
C24_Witness ==
  /\ last.op = "softDelete"
  /\ \E m \in Alive(nodes) :
       nodes[m].parent = last.node /\ NumDescendants(nodes, m) > 0

\* ------------------------------------------------------------------ C25
\* Some live node holds the address of node n, as its parent or as a child.
LinkedTo(T, n) ==
  \E m \in Alive(T) :
    \/ T[m].parent = n
    \/ \E k \in 1 .. T[m].numChildren : T[m].children[k] = n

\* C25: after softDelete of a node no live node holds a link to it, neither
\* the children list of its former parent nor the parent field of a former
\* child.
C25_NoLinkToSoftDeletedNode ==
  last.op = "softDelete" => ~LinkedTo(nodes, last.node)

\* ------------------------------------------------------------------ C26
\* The EvalNode score of the k-th child of n for point x.
Score(T, n, k, x) == EvalNode(T[T[n].children[k]].bound, x)

\* The child of n with the minimum score, the lowest index among equals.
MinScoreChild(T, n, x) ==
  LET least == CHOOSE v \in {Score(T, n, k, x) : k \in 1 .. T[n].numChildren} :
                 \A k \in 1 .. T[n].numChildren : v <= Score(T, n, k, x)
      first == CHOOSE k \in 1 .. T[n].numChildren :
                 /\ Score(T, n, k, x) = least
                 /\ \A j \in 1 .. T[n].numChildren :
                      Score(T, n, j, x) = least => k <= j
  IN T[n].children[first]

\* The nodes a descent from n along the minimum-score children visits.
RECURSIVE DescentPath(_, _, _)
DescentPath(T, n, x) ==
  IF T[n].numChildren = 0 THEN {n}
  ELSE {n} \cup DescentPath(T, MinScoreChild(T, n, x), x)

\* The leaf the descent ends at.
DescentLeaf(T, n, x) ==
  CHOOSE m \in DescentPath(T, n, x) : T[m].numChildren = 0

Leaves(T) == {m \in Alive(T) : T[m].numChildren = 0}

RECURSIVE SumCounts(_, _)
SumCounts(T, S) ==
  IF S = {} THEN 0
  ELSE LET m == CHOOSE m \in S : TRUE IN T[m].count + SumCounts(T, S \ {m})

\* C26: an InsertPoint call on a tree whose root has children goes, at each
\* internal node, into the one child with the minimum EvalNode score (the
\* lowest index among equal scores) and ends at a leaf. The point is added
\* to that leaf only: every other leaf keeps its points, every node off the
\* path keeps its bound, and the leaf reached holds its old points and the
\* new one, itself or, when the insertion split it, in the leaves that
\* replace it (the address of the split leaf may by then be that of a new
\* internal node).
C26_InsertPointDescendsToMinScoreLeaf ==
  [][(last'.op = "InsertPoint" /\ nodes[RootId].numChildren # 0) =>
       LET x == last'.point
           path == DescentPath(nodes, RootId, x)
           leaf == DescentLeaf(nodes, RootId, x)
           fresh == Leaves(nodes') \ Alive(nodes)
       IN /\ nodes[leaf].alive /\ leaf \in Leaves(nodes)
          /\ \A m \in Leaves(nodes) \ {leaf} :
               /\ m \in Leaves(nodes')
               /\ nodes'[m].dataset = nodes[m].dataset
               /\ nodes'[m].count = nodes[m].count
          /\ \A m \in (Alive(nodes) \cap Alive(nodes')) \ path :
               nodes'[m].bound = nodes[m].bound
          /\ IF leaf \in Leaves(nodes')
               THEN /\ nodes'[leaf].dataset = Append(nodes[leaf].dataset, x)
                    /\ nodes'[leaf].count = nodes[leaf].count + 1
                    /\ fresh = {}
               ELSE /\ SumCounts(nodes', fresh) = nodes[leaf].count + 1
                    /\ UNION {Range(nodes'[m].dataset) : m \in fresh}
                         = Range(nodes[leaf].dataset) \cup {x}]_vars

\* InsertPoint was called on a tree with two leaves that scored the same for
\* the point, and the point is in the subtree of the first of them.
C26_Witness ==
  /\ last.op = "InsertPoint"
  /\ nodes[RootId].numChildren >= 2
  /\ NumDescendants(nodes, RootId) = 3
  /\ \E a, b \in Coords :
       /\ a < b /\ last.point - a = b - last.point
       /\ SubtreePoints(nodes, RootId) = {a, last.point, b}

\* ------------------------------------------------------------------ C27
\* The tree is constructed and only InsertPoint calls have followed.
OnlyInserted == cpc = "Done" /\ last.op \in {"RectangleTree", "InsertPoint"}

RECURSIVE EndOf(_, _)
EndOf(T, n) ==
  IF T[n].numChildren = 0 THEN begin + T[n].count
  ELSE EndOf(T, T[n].children[T[n].numChildren])

\* C28: a call of End returns (it reads no entry outside the children list)
\* and its value is begin + count on a leaf and End of the last child on an
\* internal node.
C28_EndReturnsLastPoint ==
  last.op = "End" => (~aborted /\ last.ret = EndOf(nodes, last.node))

\* ------------------------------------------------------------------ C22
\* C22: the calls made on the statistic of a node are one Reset, then
\* Accumulate calls, then one Postprocess: Reset is the first call and only
\* the first, no call follows a Postprocess (no second Postprocess and no
\* Accumulate), and when Fix is done every node has had its Postprocess.
C22_ResetAccumulatesOnePostprocess ==
  \A n \in DOMAIN stat_ops :
    LET ops == stat_ops[n]
    IN /\ \A j \in 1 .. Len(ops) :
            /\ (ops[j].op = "Reset") <=> (j = 1)
            /\ ops[j].op = "Postprocess" => j = Len(ops)
       /\ fpc = "Done" => (ops # << >> /\ ops[Len(ops)].op = "Postprocess")

\* ------------------------------------------------------------------ C23
\* The nodes of the subtree of node n.
RECURSIVE Subtree(_)
Subtree(n) ==
  IF nodes_[n].is_leaf THEN {n}
  ELSE {n} \cup Subtree(nodes_[n].child[1]) \cup Subtree(nodes_[n].child[2])

\* The FixRecursively_ call of node n has returned: its statistic is
\* post-processed and no call is running on it.
Fixed(n) ==
  /\ \A j \in 1 .. Len(stack) : stack[j].node_index # n
  /\ stat_ops[n] # << >>
  /\ stat_ops[n][Len(stat_ops[n])].op = "Postprocess"

IsAccumulateChild(o) == o.op = "AccumulateChild"
IsAccumulatePoint(o) == o.op = "AccumulatePoint"

\* C23: an internal node accumulates its two children, each once and in
\* order, and each only when the whole subtree of the child is fixed: the
\* statistic of the child is post-processed and is never changed after it
\* was read. A leaf accumulates the points begin .. begin + count - 1, each
\* once. A node that is fixed has accumulated all of them.
C23_AccumulatesFixedChildrenAndOwnPoints ==
  \A n \in DOMAIN nodes_ :
    LET kids == SelectSeq(stat_ops[n], IsAccumulateChild)
        pts == SelectSeq(stat_ops[n], IsAccumulatePoint)
    IN /\ Len(kids) <= Len(nodes_[n].child)
       /\ \A j \in 1 .. Len(kids) :
            /\ kids[j].arg = nodes_[n].child[j]
            /\ kids[j].len = Len(stat_ops[kids[j].arg])
            /\ \A m \in Subtree(kids[j].arg) : Fixed(m)
       /\ Len(pts) <= (IF nodes_[n].is_leaf THEN nodes_[n].count ELSE 0)
       /\ \A j \in 1 .. Len(pts) : pts[j].arg = nodes_[n].begin + j - 1
       /\ Fixed(n) =>
            IF nodes_[n].is_leaf
              THEN Len(pts) = nodes_[n].count
              ELSE Len(kids) = 2

\* Fix is done on a tree whose root has an internal child and a leaf of two
\* points.
C23_Witness ==
  /\ fpc = "Done"
  /\ \E c \in Range(nodes_[0].child) : ~nodes_[c].is_leaf
  /\ \E n \in DOMAIN nodes_ : nodes_[n].is_leaf /\ nodes_[n].count = 2

\* ------------------------------------------------------------------ C29
\* The roots of its grain a worker has finished: those before its index i.
DoneBy(p, t) == {work[p][t][i] : i \in 1 .. (wi[p][t] - 1)}

\* C29: every query root of a claimed grain gets one traversal by a Solver
\* of its own and one Accumulate of that Solver's result: no root is solved
\* or accumulated twice, none is accumulated before it is solved, the roots
\* a worker has gone past are solved and accumulated, and when the run is
\* over every top-level query node has been solved once and accumulated
\* once and global_result_ is the accumulation of one partial result each.
C29_EachRootSolvedOnceAndAccumulatedOnce ==
  /\ \A r \in 1 .. MaxRoots :
       /\ solves[r] <= 1
       /\ merged[r] <= solves[r]
       /\ solves[r] = 1 => (r \in Roots /\ TimesHanded(r) = 1)
  /\ \A p \in Peers, t \in ThreadIds :
       \A r \in DoneBy(p, t) : solves[r] = 1 /\ merged[r] = 1
  /\ Returned =>
       /\ \A r \in Roots : solves[r] = 1 /\ merged[r] = 1
       /\ global_result_[MASTER_RANK] = SumPartial(n_roots)

\* The run is over, and one worker was handed a grain of several roots.
C29_Witness ==
  /\ Returned
  /\ \E i \in 1 .. Len(returns) : Len(returns[i]) >= 2
  /\ \A r \in Roots : merged[r] = 1

\* ------------------------------------------------------------------ C30
\* A worker of peer p is inside its traversal or its Accumulate, or can
\* still get there: it has been started and has not stopped.
Active(p, t) == wpc[p][t] \notin {"NotStarted", "Stopped", "Joined"}

\* C30: when InitSolve is at global_result_.Report, or past it, each of its
\* n_threads workers has stopped and has been waited for, and from then on
\* no traversal starts and nothing is accumulated into global_result_.
C30_ReportOnlyAfterAllWorkersStopped ==
  /\ [](\A p \in Peers :
          (dpc[p] = "Report" \/ reported[p]) =>
            \A t \in ThreadIds :
              /\ ~Active(p, t)
              /\ t \in WorkersOf(p) => wpc[p][t] = "Joined")
  /\ [][\A p \in Peers :
          (dpc[p] = "Report" \/ reported[p]) =>
            /\ global_result_'[p] = global_result_[p]
            /\ solves' = solves
            /\ merged' = merged]_vars

\* InitSolve has reported after a run of two workers that both solved roots.
C30_Witness ==
  /\ reported[MASTER_RANK]
  /\ n_threads[MASTER_RANK] = 2
  /\ \E i, j \in 1 .. Len(returns) :
       i # j /\ returns[i] # << >> /\ returns[j] # << >>
  /\ \A t \in WorkersOf(MASTER_RANK) : wpc[MASTER_RANK][t] = "Joined"

\* ------------------------------------------------------------------ C31
\* The worker stands at one of the Lock calls of lines 93, 105 and 115.
AtLock(p, t) == wpc[p][t] \in {"LockQueue", "LockSubmodule", "LockResult"}

\* The worker is between a Lock and its Unlock.
Locked(p, t) ==
  wpc[p][t] \in ClaimSection \cup SubmoduleSection \cup MergeSection

\* Every worker that InitSolve of peer p started has left Run.
AllExited(p) ==
  /\ n_threads[p] >= 1
  /\ dpc[p] \in {"WaitStop", "Report", "Returned"}
  /\ \A t \in WorkersOf(p) : wpc[p][t] \in {"Stopped", "Joined"}

\* C31: a worker holds the mutex exactly between a Lock of WorkerTask::Run
\* and the Unlock that follows it, so it holds none while it waits at a
\* Lock, runs its traversal, claims again or has left Run; the mutex is free
\* when the last worker has left; and no worker stays at a Lock forever.
C31_LocksPairedNoDeadlockCleanTeardown ==
  /\ [](\A p \in PeerIds, t \in ThreadIds :
          /\ Holds(p, t) <=> (p \in Peers /\ Locked(p, t))
          /\ AllExited(p) => MutexFree(p))
  /\ \A p \in PeerIds, t \in ThreadIds : AtLock(p, t) ~> ~AtLock(p, t)

\* A worker waits to claim its next grain while another, inside the
\* section of lines 105-108, holds the mutex.
C31_Witness ==
  \E t1 \in ThreadIds, t2 \in ThreadIds :
    /\ wpc[MASTER_RANK][t1] = "LockQueue"
    /\ Len(returns) >= 2
    /\ wpc[MASTER_RANK][t2] = "Submodule"
    /\ Holds(MASTER_RANK, t2)

\* ------------------------------------------------------------------ C32
IsReset(o) == o.op = "Reset"

\* The FixRecursively_ calls made so far on node n: the calls that have run
\* their Reset (line 52, once per call) and the calls just entered.
Calls(n) ==
  Len(SelectSeq(stat_ops[n], IsReset))
    + Cardinality({j \in 1 .. Len(stack) :
                     stack[j].node_index = n /\ stack[j].pc = "Reset"})

\* C32: Fix comes to its end on every tree; FixRecursively_ is never called
\* twice on a node; and when InitFix is past the recursion, where it
\* flushes the arrays, no call is running and every node of the tree has
\* had its one call and is fixed.
C32_FixTerminatesVisitingEachNodeOnce ==
  /\ <>(fpc = "Done")
  /\ [](\A n \in DOMAIN nodes_ :
          /\ Calls(n) <= 1
          /\ fpc = "Done" => (stack = << >> /\ Calls(n) = 1 /\ Fixed(n)))

\* Fix is done on a tree of three leaves whose second child of the root is
\* internal.
C32_Witness ==
  /\ fpc = "Done"
  /\ Cardinality(DOMAIN nodes_) = 5
  /\ ~nodes_[nodes_[0].child[2]].is_leaf

\* ------------------------------------------------------------------ C33
\* Node nd with the statistic st in place of its own.
WithStat(nd, st) == [nd EXCEPT !.stat = st]

\* C33: no step of Fix changes a point, adds or removes a node, or changes
\* anything of a node but its statistic: bound, count, begin, the child
\* indices and is_leaf stay what they were, so they are the same after Fix
\* as before it.
C33_FixChangesOnlyStatistics ==
  [][/\ points_' = points_
     /\ DOMAIN nodes_' = DOMAIN nodes_
     /\ \A n \in DOMAIN nodes_ :
          WithStat(nodes_'[n], nodes_[n].stat) = nodes_[n]]_vars

\* Fix is done on a tree with an internal node, and the statistic of every
\* node has been rewritten: the root's holds the sum of all points.
C33_Witness ==
  /\ fpc = "Done"
  /\ ~nodes_[0].is_leaf
  /\ \A n \in DOMAIN nodes_ : nodes_[n].stat # StaleStat
  /\ nodes_[0].stat.sum = SumTo(points_, nodes_[0].count - 1) + points_[0]
====
